---- MODULE Spec2Model ----
(***************************************************************************)
(* ShiftCommander scheduling store: week generation, first-out rotation,   *)
(* history import and seat-record reconciliation, modelled from the        *)
(* scripts under src/tools/schedule.                                       *)
(*                                                                         *)
(* Dates are day numbers; day 0 is Thursday 2025-12-04.  Formatted ids     *)
(* (f"WEEK_{start}_to_{end}", f"{wid}__D{di}__{slot}", ...) are tuples of   *)
(* their parts: the formats are injective on the values used.  SQL NULL is *)
(* NULL for text columns and NullId for id columns.                        *)
(***************************************************************************)
EXTENDS Integers, Sequences, FiniteSets, TLC

VARIABLES weeks, shifts, cfg, seats, legacy, roster, lastOp, nOps

vars == <<weeks, shifts, cfg, seats, legacy, roster, lastOp, nOps>>

\* SQL NULL: of a word column (entity type, health, unit, person id), of an id
\* column, and of a free-text column (text is a sequence of characters/tokens).
NULL == "NULL"
NullId == <<>>
NullText == <<"NULL">>

\* ---------------------------------------------------------------- constants
UNITS == <<"AMB120", "AMB121", "AMB131">>
SEATS == <<"ATTENDANT", "DRIVER">>
LAYERS == <<"PRIMARY", "SHADOW">>
SLOTS == <<"DAY", "NIGHT">>
NumDays == 7
WeekSpan == 6
LockLeadDays == 28
TAG == "HISTORY_DEC2025"

\* ------------------------------------------------------------------- bounds
MaxOps == 3
Starts == {0, 7}
FirstOuts == {"AMB120", "AMB121", "AMB131"}
Rotations == {<<"AMB120", "AMB121">>}

\* ------------------------------------------------------------------ helpers
Range(s) == {s[i] : i \in 1..Len(s)}

RECURSIVE Flatten(_)
Flatten(ss) == IF ss = <<>> THEN <<>> ELSE Head(ss) \o Flatten(Tail(ss))

Truthy(v) == v # NULL /\ v # ""

\* ---------------------------------------------------------------------- ids
week_id_for(start) == <<"WEEK", start, start + WeekSpan>>

shift_id_for(wid, di, slot) == <<wid, di, slot>>

gen_seat_record_id(sid, unit, seat, layer) == <<sid, layer, unit, seat>>

\* ------------------------------------------------------------------- tables
Store == [weeks |-> weeks, shifts |-> shifts, cfg |-> cfg, seats |-> seats]

WeekRow(wid, start, first_out) ==
  [week_id |-> wid, start_date |-> start, end_date |-> start + WeekSpan,
   lock_dt |-> <<start - LockLeadDays, 0>>,
   first_out_default_unit_id |-> first_out, status |-> "DRAFT"]

\* a night shift that ends at 06:00 of the day it starts
ShiftRowSameDayEnd(wid, start, di, slot) ==
  [shift_id |-> shift_id_for(wid, di, slot), week_id |-> wid,
   shift_start |-> IF slot = "DAY" THEN <<start + di, 6>> ELSE <<start + di, 18>>,
   shift_end |-> IF slot = "DAY" THEN <<start + di, 18>> ELSE <<start + di, 6>>,
   label |-> <<start + di, slot, IF slot = "DAY" THEN "(06-18)" ELSE "(18-06)">>,
   day_index |-> di, slot |-> slot]

ShiftRow(wid, start, di, slot) ==
  [shift_id |-> shift_id_for(wid, di, slot), week_id |-> wid,
   shift_start |-> IF slot = "DAY" THEN <<start + di, 6>> ELSE <<start + di, 18>>,
   shift_end |-> IF slot = "DAY" THEN <<start + di, 18>> ELSE <<start + di + 1, 6>>,
   label |-> <<start + di, slot, IF slot = "DAY" THEN "(06-18)" ELSE "(18-06)">>,
   day_index |-> di, slot |-> slot]

CfgRow(sid, first_out) ==
  [shift_id |-> sid, first_out_override_unit_id |-> NULL,
   staffed_unit_id |-> first_out, is_salary_only |-> 0, active |-> 1]

BlankSeat(srid, sid, unit, seat, layer) ==
  [seat_record_id |-> srid, shift_id |-> sid, unit_id |-> unit, seat_id |-> seat,
   layer |-> layer, assigned_entity_type |-> "NONE", assigned_person_id |-> NULL,
   assigned_placeholder_id |-> NullText, health_status |-> "UNFILLED",
   note |-> NullText]

\* The (day index, slot) pairs in the order the generators create the shifts.
ShiftOrder == Flatten([di \in 1..NumDays |-> [k \in 1..2 |-> <<di - 1, SLOTS[k]>>]])

HasWeek(W, wid) == \E w \in W : w.week_id = wid
HasShift(S, sid) == \E s \in S : s.shift_id = sid
HasCfg(C, sid) == \E c \in C : c.shift_id = sid
HasSeatId(Q, srid) == \E i \in 1..Len(Q) : Q[i].seat_record_id = srid

\* SELECT shift_id FROM sc_shifts WHERE week_id = ?, in generation order.
WeekShiftIds(S, wid) ==
  LET all == [k \in 1..Len(ShiftOrder) |->
                shift_id_for(wid, ShiftOrder[k][1], ShiftOrder[k][2])]
  IN SelectSeq(all, LAMBDA sid : \E s \in S : s.shift_id = sid /\ s.week_id = wid)

\* ----------------------------------------------------------- ensure_week (a)
SeatBlock(sid, unit, layer) ==
  [k \in 1..Len(SEATS) |->
     BlankSeat(gen_seat_record_id(sid, unit, SEATS[k], layer), sid, unit, SEATS[k], layer)]

WantedSeatsIgnoreCfg(C, sid, first_out) ==
  LET others == SelectSeq(UNITS, LAMBDA u : u # first_out)
  IN SeatBlock(sid, first_out, "PRIMARY") \o
     Flatten([j \in 1..Len(others) |-> SeatBlock(sid, others[j], "SHADOW")])

WantedSeatsShadowAll(C, sid, first_out) ==
  LET row == CHOOSE c \in C : c.shift_id = sid
      staffed_unit == IF Truthy(row.staffed_unit_id) THEN row.staffed_unit_id
                      ELSE first_out
  IN SeatBlock(sid, staffed_unit, "PRIMARY") \o
     Flatten([j \in 1..Len(UNITS) |-> SeatBlock(sid, UNITS[j], "SHADOW")])

\* The seat rows ensure_week wants for one shift, in insertion order.
WantedSeats(C, sid, first_out) ==
  LET row == CHOOSE c \in C : c.shift_id = sid
      staffed_unit == IF Truthy(row.staffed_unit_id) THEN row.staffed_unit_id
                      ELSE first_out
      others == SelectSeq(UNITS, LAMBDA u : u # staffed_unit)
  IN SeatBlock(sid, staffed_unit, "PRIMARY") \o
     Flatten([j \in 1..Len(others) |-> SeatBlock(sid, others[j], "SHADOW")])

\* INSERT of each wanted row whose seat_record_id no stored row has.
EnsureSeatsAppendAll(Q, wanted) == Q \o wanted

EnsureSeatsReplace(Q, wanted) ==
  LET ids == {wanted[i].seat_record_id : i \in 1..Len(wanted)}
  IN SelectSeq(Q, LAMBDA r : r.seat_record_id \notin ids) \o wanted

EnsureSeats(Q, wanted) ==
  LET have == {Q[i].seat_record_id : i \in 1..Len(Q)}
  IN Q \o SelectSeq(wanted, LAMBDA r : r.seat_record_id \notin have)

ensure_week(T, start, first_out) ==
  LET wid == week_id_for(start)
      W1 == IF HasWeek(T.weeks, wid) THEN T.weeks
            ELSE T.weeks \cup {WeekRow(wid, start, first_out)}
      haveS == {r.shift_id : r \in T.shifts}
      S1 == T.shifts \cup
            {ShiftRow(wid, start, p[1], p[2]) : p \in
               {q \in Range(ShiftOrder) : shift_id_for(wid, q[1], q[2]) \notin haveS}}
      sids == WeekShiftIds(S1, wid)
      C1 == T.cfg \cup {CfgRow(sid, first_out) : sid \in
                          {x \in Range(sids) : ~HasCfg(T.cfg, x)}}
      wanted == Flatten([k \in 1..Len(sids) |-> WantedSeats(C1, sids[k], first_out)])
      Q1 == EnsureSeats(T.seats, wanted)
  IN [weeks |-> W1, shifts |-> S1, cfg |-> C1, seats |-> Q1]

\* -------------------------------------------------------------- apply_tow (a)
apply_tow_clears_override(T, start, tow_unit) ==
  LET wid == week_id_for(start)
      sids == {s.shift_id : s \in {x \in T.shifts : x.week_id = wid}}
  IN [T EXCEPT
        !.weeks = {IF w.week_id = wid
                   THEN [w EXCEPT !.first_out_default_unit_id = tow_unit] ELSE w : w \in @},
        !.cfg = {IF c.shift_id \in sids
                 THEN [c EXCEPT !.staffed_unit_id = tow_unit,
                                !.first_out_override_unit_id = NULL]
                 ELSE c : c \in @}]

\* a rotation that rewrites the week row alone
apply_tow_week_only(T, start, tow_unit) ==
  [T EXCEPT !.weeks = {IF w.week_id = week_id_for(start)
                       THEN [w EXCEPT !.first_out_default_unit_id = tow_unit] ELSE w : w \in @}]

apply_tow(T, start, tow_unit) ==
  LET wid == week_id_for(start)
      W1 == {IF w.week_id = wid THEN [w EXCEPT !.first_out_default_unit_id = tow_unit]
             ELSE w : w \in T.weeks}
      sids == {s.shift_id : s \in {x \in T.shifts : x.week_id = wid}}
      C1 == {IF c.shift_id \in sids THEN [c EXCEPT !.staffed_unit_id = tow_unit]
             ELSE c : c \in T.cfg}
  IN [T EXCEPT !.weeks = W1, !.cfg = C1]

\* ------------------------------------------- ensure_week (apply_tow_rotation)
\* Returns early when the week exists; otherwise inserts week, 14 shifts, their
\* config rows and the seat rows without existence checks.  The seat INSERT
\* names no seat_record_id: in the sc_seat_records schema of ensure_schema
\* (seat_record_id TEXT PRIMARY KEY) the new rows carry a NULL id.  An INSERT
\* that hits an existing primary key raises and the run commits nothing.
TowSeats(sid, first_out) ==
  LET prim == [k \in 1..Len(SEATS) |-> BlankSeat(NullId, sid, first_out, SEATS[k], "PRIMARY")]
      others == SelectSeq(UNITS, LAMBDA u : u # first_out)
      shad == Flatten([j \in 1..Len(others) |->
                [k \in 1..Len(SEATS) |-> BlankSeat(NullId, sid, others[j], SEATS[k], "SHADOW")]])
  IN prim \o shad

ensure_week_tow(T, start, first_out) ==
  LET wid == week_id_for(start)
      newShifts == {ShiftRow(wid, start, p[1], p[2]) : p \in Range(ShiftOrder)}
      S1 == T.shifts \cup newShifts
      sids == WeekShiftIds(S1, wid)
      clash == \/ \E r \in newShifts : HasShift(T.shifts, r.shift_id)
               \/ \E k \in 1..Len(sids) : HasCfg(T.cfg, sids[k])
  IN IF HasWeek(T.weeks, wid) THEN [T |-> T, ok |-> TRUE]
     ELSE IF clash THEN [T |-> T, ok |-> FALSE]
     ELSE [T |-> [weeks |-> T.weeks \cup {WeekRow(wid, start, first_out)},
                  shifts |-> S1,
                  cfg |-> T.cfg \cup {CfgRow(sids[k], first_out) : k \in 1..Len(sids)},
                  seats |-> T.seats \o
                            Flatten([k \in 1..Len(sids) |-> TowSeats(sids[k], first_out)])],
           ok |-> TRUE]

apply_week_first_out(T, start, first_out) ==
  LET wid == week_id_for(start)
      W1 == {IF w.week_id = wid THEN [w EXCEPT !.first_out_default_unit_id = first_out]
             ELSE w : w \in T.weeks}
      sids == {s.shift_id : s \in {x \in T.shifts : x.week_id = wid}}
      C1 == {IF c.shift_id \in sids THEN [c EXCEPT !.staffed_unit_id = first_out]
             ELSE c : c \in T.cfg}
  IN [T EXCEPT !.weeks = W1, !.cfg = C1]

\* ------------------------------------------------------ create_week (legacy)
\* create_week.py writes its own tables (schedule_weeks, shifts, shift_config,
\* seat_records) and draws shift and seat ids from uuid4: ids are fresh.
LegacyLockDays == 29
FallbackUnits == <<"AMB120", "AMB121", "AMB131">>
UnitTables == {<<>>, <<"AMB120", "AMB121">>}

Uuid(n) == <<"uuid", n>>

units_list(tbl) == IF tbl # <<>> THEN tbl ELSE FallbackUnits

ensure_week_not_exists(L, start) == ~\E w \in L.weeks : w.start_date = start

LegacySeat(n, sid, unit, seat, first_out) ==
  [seat_record_id |-> Uuid(n), shift_id |-> sid, unit_id |-> unit, seat_id |-> seat,
   layer |-> IF unit = first_out THEN "PRIMARY" ELSE "SHADOW",
   assigned_entity_type |-> "UNASSIGNED", assigned_person_id |-> NULL,
   assigned_placeholder_id |-> NullText, health_status |-> "UNFILLED",
   note |-> NullText]

create_week(L, start, first_out, tbl) ==
  LET wid == week_id_for(start)
      units == units_list(tbl)
      per == 1 + Len(units) * Len(SEATS)
      base(k) == L.next_uuid + (k - 1) * per
      n == Len(ShiftOrder)
      shiftRow(k) ==
        [ShiftRow(wid, start, ShiftOrder[k][1], ShiftOrder[k][2])
           EXCEPT !.shift_id = Uuid(base(k))]
      seatRows(k) ==
        Flatten([j \in 1..Len(units) |->
          [m \in 1..Len(SEATS) |->
             LegacySeat(base(k) + (j - 1) * Len(SEATS) + m, Uuid(base(k)),
                        units[j], SEATS[m], first_out)]])
  IN [weeks |-> L.weeks \cup
                {[WeekRow(wid, start, first_out)
                    EXCEPT !.lock_dt = <<start - LegacyLockDays, 0>>]},
      shifts |-> L.shifts \cup {shiftRow(k) : k \in 1..n},
      cfg |-> L.cfg \cup {CfgRow(Uuid(base(k)), first_out) : k \in 1..n},
      seats |-> L.seats \o Flatten([k \in 1..n |-> seatRows(k)]),
      next_uuid |-> L.next_uuid + n * per]

\* --------------------------------------------------------------------- text
\* Text is a sequence of characters; the importers' str methods, as they act.
PH == <<"P", "H", "_">>

UpperCh(c) == CASE c = "a" -> "A" [] c = "b" -> "B" [] c = "p" -> "P" [] c = "h" -> "H"
                 [] OTHER -> c

upper(s) == [i \in 1..Len(s) |-> UpperCh(s[i])]

RECURSIVE lstrip(_)
lstrip(s) == IF s # <<>> /\ Head(s) = " " THEN lstrip(Tail(s)) ELSE s

RECURSIVE rstrip(_)
rstrip(s) == IF s # <<>> /\ s[Len(s)] = " " THEN rstrip(SubSeq(s, 1, Len(s) - 1)) ELSE s

strip(s) == rstrip(lstrip(s))

replace_space(s) == [i \in 1..Len(s) |-> IF s[i] = " " THEN "_" ELSE s[i]]

startswith(s, p) == Len(s) >= Len(p) /\ SubSeq(s, 1, Len(p)) = p

UpperWord(w) == CASE w = "day" -> "DAY" [] w = "night" -> "NIGHT" [] w = "n" -> "N"
                  [] w = "filled" -> "FILLED" [] w = "person" -> "PERSON"
                  [] w = "placeholder" -> "PLACEHOLDER" [] OTHER -> w

\* The calendar: day 0 is Thursday 2025-12-04; weekday() counts Monday as 0.
weekday(d) == (d + 3) % 7

\* the subtraction without the wrap of % 7
week_start_thu_no_wrap(d) == d - (weekday(d) - 3)

week_start_thu(d) == d - ((weekday(d) - 3) % 7)

\* A CSV date cell is <<format, day>>: "ymd" (2025-12-04), "mdy" (12/04/2025) or
\* "bad" (anything strptime rejects).
parse_ymd(cell) == IF cell[1] = "ymd" THEN [ok |-> TRUE, d |-> cell[2]]
                   ELSE [ok |-> FALSE, d |-> 0]

parse_date(cell) == IF cell[1] \in {"ymd", "mdy"} THEN [ok |-> TRUE, d |-> cell[2]]
                    ELSE [ok |-> FALSE, d |-> 0]

parse_slot(w) ==
  LET u == UpperWord(w)
  IN IF u \in {"DAY", "AM", "A", "06-18", "D"} THEN "DAY"
     ELSE IF u \in {"NIGHT", "PM", "P", "18-06", "N"} THEN "NIGHT"
     ELSE "ERROR"

\* ------------------------------------------- import_history_month_2025_12_v3
DEFAULT_UNIT == "AMB120"

\* a week id taken from the CSV date itself
imp_week_id_for_date(d) == <<"WEEK", d, d + WeekSpan>>

imp_week_id_for(d) == <<"WEEK", week_start_thu(d), week_start_thu(d) + WeekSpan>>

imp_shift_id_for(d, slot) == <<imp_week_id_for(d), d - week_start_thu(d), slot>>

\* INSERT OR IGNORE INTO sc_weeks
imp_ensure_week_replace(T, d) ==
  LET wid == imp_week_id_for(d)
  IN [T EXCEPT !.weeks = {w \in @ : w.week_id # wid}
                         \cup {WeekRow(wid, week_start_thu(d), DEFAULT_UNIT)}]

imp_ensure_week(T, d) ==
  LET wid == imp_week_id_for(d)
  IN IF HasWeek(T.weeks, wid) THEN T
     ELSE [T EXCEPT !.weeks = @ \cup {WeekRow(wid, week_start_thu(d), DEFAULT_UNIT)}]

\* INSERT OR IGNORE INTO sc_shifts, then UPDATE of the row's columns.
imp_ensure_shift(T, d, slot) ==
  LET sid == imp_shift_id_for(d, slot)
      row == [shift_id |-> sid, week_id |-> imp_week_id_for(d),
              shift_start |-> IF slot = "DAY" THEN <<d, 6>> ELSE <<d, 18>>,
              shift_end |-> IF slot = "DAY" THEN <<d, 18>> ELSE <<d + 1, 6>>,
              label |-> <<d, slot>>, day_index |-> d - week_start_thu(d), slot |-> slot]
  IN [T EXCEPT !.shifts = {r \in @ : r.shift_id # sid} \cup {row}]

\* INSERT OR REPLACE INTO sc_seat_records: a row with the same id is deleted and
\* the new row is stored last.
upsert_seat(T, sid, unit, seat, placeholder_name, note) ==
  LET srid == <<sid, "PRIMARY", unit, seat>>
      ph0 == strip(placeholder_name)
      ph == IF startswith(ph0, PH) THEN ph0 ELSE PH \o replace_space(ph0)
      n == IF strip(note) # <<>> THEN <<TAG, " | ">> \o strip(note) ELSE <<TAG>>
      row == [seat_record_id |-> srid, shift_id |-> sid, unit_id |-> unit,
              seat_id |-> seat, layer |-> "PRIMARY",
              assigned_entity_type |-> "PLACEHOLDER", assigned_person_id |-> NULL,
              assigned_placeholder_id |-> ph, health_status |-> "FILLED", note |-> n]
  IN [T EXCEPT !.seats = SelectSeq(@, LAMBDA r : r.seat_record_id # srid) \o <<row>>]

import_v3_row(T, r) ==
  LET pd == parse_ymd(r.date)
      slot == UpperWord(r.slot)
      d == pd.d
      sid == imp_shift_id_for(d, slot)
      T1 == imp_ensure_shift(imp_ensure_week(T, d), d, slot)
      T2 == IF strip(r.attendant) # <<>>
            THEN upsert_seat(T1, sid, DEFAULT_UNIT, "ATTENDANT", strip(r.attendant), r.notes)
            ELSE T1
      T3 == IF strip(r.driver) # <<>>
            THEN upsert_seat(T2, sid, DEFAULT_UNIT, "DRIVER", strip(r.driver), r.notes)
            ELSE T2
  IN IF ~pd.ok \/ slot \notin {"DAY", "NIGHT"} THEN [T |-> T, ok |-> FALSE]
     ELSE [T |-> T3, ok |-> TRUE]

\* main: the rows in file order; an exception leaves the connection uncommitted.
RECURSIVE import_v3_rows(_, _)
import_v3_rows(T, rows) ==
  IF rows = <<>> THEN [T |-> T, ok |-> TRUE]
  ELSE LET r == import_v3_row(T, Head(rows))
       IN IF r.ok THEN import_v3_rows(r.T, Tail(rows)) ELSE r

import_v3(T, rows) ==
  LET r == import_v3_rows(T, rows) IN IF r.ok THEN r ELSE [T |-> T, ok |-> FALSE]

\* --------------------------------------------------- import_history_dec2025_v2
PH_EMS == <<"P", "H", "_", "EMS_SUPERVISOR">>
PH_FIRE == <<"P", "H", "_", "FIRE_DIVISION">>
PH_SHERM == <<"P", "H", "_", "SHERMAN">>
OPEN == <<"O", "P", "E", "N">>

\* SELECT ... WHERE substr(shift_start,1,10) = ? AND slot = ? with fetchone():
\* the row returned when several match is the scan's first, which SQL leaves
\* open; scan picks it.
get_shift_id(T, d, slot, scan) ==
  LET m == {s \in T.shifts : s.shift_start[1] = d /\ s.slot = slot}
  IN IF m = {} THEN NullId
     ELSE IF scan = "first"
          THEN (CHOOSE s \in m : \A t \in m : s.week_id[2] <= t.week_id[2]).shift_id
          ELSE (CHOOSE s \in m : \A t \in m : s.week_id[2] >= t.week_id[2]).shift_id

get_staffed_unit(T, sid) ==
  IF ~HasCfg(T.cfg, sid) THEN NULL
  ELSE LET c == CHOOSE x \in T.cfg : x.shift_id = sid
       IN IF Truthy(c.first_out_override_unit_id) THEN c.first_out_override_unit_id
          ELSE c.staffed_unit_id

upsert_primary_seat(T, sid, unit, seat, aet, person, placeholder) ==
  LET srid == <<sid, "PRIMARY", unit, seat>>
  IN IF ~HasSeatId(T.seats, srid)
     THEN [T EXCEPT !.seats = @ \o
            <<[seat_record_id |-> srid, shift_id |-> sid, unit_id |-> unit,
               seat_id |-> seat, layer |-> "PRIMARY", assigned_entity_type |-> aet,
               assigned_person_id |-> person, assigned_placeholder_id |-> placeholder,
               health_status |-> "FILLED", note |-> <<TAG>>]>>]
     ELSE [T EXCEPT !.seats = [i \in 1..Len(@) |->
            IF @[i].seat_record_id = srid
            THEN [@[i] EXCEPT !.assigned_entity_type = aet,
                              !.assigned_person_id = person,
                              !.assigned_placeholder_id = placeholder,
                              !.health_status = "FILLED", !.note = <<TAG>>]
            ELSE @[i]]]

import_v2_row(T, r, scan) ==
  LET pd == parse_date(r.date)
      slot == parse_slot(r.slot)
      sid == get_shift_id(T, pd.d, slot, scan)
      unit == get_staffed_unit(T, sid)
      als_upper == upper(strip(r.als))
      drv_upper == upper(strip(r.drv))
      als_ph == IF als_upper = <<>> \/ als_upper = OPEN THEN PH_EMS
                ELSE PH \o replace_space(als_upper)
      is_weekday == weekday(pd.d) <= 4
      drv_ph == IF drv_upper = OPEN THEN PH_SHERM
                ELSE IF drv_upper = <<>> /\ is_weekday THEN PH_FIRE
                ELSE IF drv_upper = <<>> THEN NullText
                ELSE PH \o replace_space(drv_upper)
      T1 == upsert_primary_seat(T, sid, unit, "ATTENDANT", "PLACEHOLDER", NULL, als_ph)
      T2 == IF drv_ph # NullText
            THEN upsert_primary_seat(T1, sid, unit, "DRIVER", "PLACEHOLDER", NULL, drv_ph)
            ELSE T1
  IN IF ~pd.ok \/ slot = "ERROR" THEN [T |-> T, ok |-> FALSE]
     ELSE IF sid = NullId THEN [T |-> T, ok |-> TRUE]
     ELSE IF ~Truthy(unit) THEN [T |-> T, ok |-> TRUE]
     ELSE [T |-> T2, ok |-> TRUE]

RECURSIVE import_v2_rows(_, _, _)
import_v2_rows(T, rows, scan) ==
  IF rows = <<>> THEN [T |-> T, ok |-> TRUE]
  ELSE LET r == import_v2_row(T, Head(rows), scan)
       IN IF r.ok THEN import_v2_rows(r.T, Tail(rows), scan) ELSE r

import_v2(T, rows, scan) ==
  LET r == import_v2_rows(T, rows, scan) IN IF r.ok THEN r ELSE [T |-> T, ok |-> FALSE]

\* ------------------------------------------------------- reconciliation
\* The passes read and write sc_seat_records only; Q is the table in rowid order.
SeatKey(r) == <<r.shift_id, r.unit_id, r.seat_id, r.layer>>

\* `TAG in (note or "")`, note LIKE '%TAG%'.
HasTag(note) == note # NullText /\ \E i \in 1..Len(note) : note[i] = TAG

\* Python truth of a text column: neither NULL nor ''.
TruthyText(t) == t # NullText /\ t # <<>>

Reverse(s) == [i \in 1..Len(s) |-> s[Len(s) + 1 - i]]

\* The keys of the table in order of first appearance.
RECURSIVE KeysOf(_)
KeysOf(Q) ==
  IF Q = <<>> THEN <<>>
  ELSE LET k == SeatKey(Head(Q))
       IN <<k>> \o KeysOf(SelectSeq(Tail(Q), LAMBDA r : SeatKey(r) # k))

KeyRows(Q, k) == SelectSeq(Q, LAMBDA r : SeatKey(r) = k)

\* GROUP BY shift_id, unit_id, seat_id, layer HAVING COUNT(*) > 1
DupKeys(Q) == SelectSeq(KeysOf(Q), LAMBDA k : Len(KeyRows(Q, k)) > 1)

score(r) ==
  LET note == IF r.note = NullText THEN <<>> ELSE r.note
      hs == IF r.health_status = NULL THEN "" ELSE r.health_status
      aet == IF r.assigned_entity_type = NULL THEN "" ELSE r.assigned_entity_type
  IN (IF HasTag(note) THEN 1000 ELSE 0)
     + (IF UpperWord(hs) = "FILLED" THEN 100 ELSE 0)
     + (IF UpperWord(aet) \in {"PERSON", "PLACEHOLDER"} THEN 10 ELSE 0)
     + (IF Truthy(r.assigned_person_id) THEN 3 ELSE 0)
     + (IF TruthyText(r.assigned_placeholder_id) THEN 2 ELSE 0)

RemoveAt(s, i) == SubSeq(s, 1, i - 1) \o SubSeq(s, i + 1, Len(s))

\* sorted(rows, key=score) without reverse=True: stable, lowest score first.
RECURSIVE sorted_ascending(_)
sorted_ascending(rows) ==
  IF rows = <<>> THEN <<>>
  ELSE LET best == CHOOSE i \in 1..Len(rows) :
                     /\ \A j \in 1..Len(rows) : score(rows[j]) >= score(rows[i])
                     /\ \A j \in 1..(i - 1) : score(rows[j]) > score(rows[i])
       IN <<rows[best]>> \o sorted_ascending(RemoveAt(rows, best))

\* sorted(rows, key=score, reverse=True): a stable sort, so rows of equal score
\* stay in the order they were read.
RECURSIVE sorted_by_score(_)
sorted_by_score(rows) ==
  IF rows = <<>> THEN <<>>
  ELSE LET best == CHOOSE i \in 1..Len(rows) :
                     /\ \A j \in 1..Len(rows) : score(rows[j]) <= score(rows[i])
                     /\ \A j \in 1..(i - 1) : score(rows[j]) < score(rows[i])
       IN <<rows[best]>> \o sorted_by_score(RemoveAt(rows, best))

\* SELECT * ... WHERE shift_id = ? AND unit_id = ? AND seat_id = ? AND layer = ?
\* has no ORDER BY: the rows come in the order of the scan the planner picks.
ReadRows(Q, k, order) == IF order = "rowid" THEN KeyRows(Q, k) ELSE Reverse(KeyRows(Q, k))

\* One duplicate group of the hard dedupe: pick the winner, copy the tag, delete
\* the losers.  WHERE seat_record_id = ? matches no row when the value is NULL.
hard_dedupe_group(Q, k, order) ==
  LET rows_sorted == sorted_by_score(ReadRows(Q, k, order))
      winner == Head(rows_sorted)
      losers == Tail(rows_sorted)
      copy == /\ ~HasTag(winner.note)
              /\ \E i \in 1..Len(losers) : HasTag(losers[i].note)
      Q1 == IF copy /\ winner.seat_record_id # NullId
            THEN [i \in 1..Len(Q) |->
                   IF Q[i].seat_record_id = winner.seat_record_id
                   THEN [Q[i] EXCEPT !.note = <<TAG>>] ELSE Q[i]]
            ELSE Q
      gone == {losers[i].seat_record_id : i \in 1..Len(losers)} \ {NullId}
  IN SelectSeq(Q1, LAMBDA r : r.seat_record_id \notin gone)

RECURSIVE hard_dedupe_groups(_, _, _)
hard_dedupe_groups(Q, dups, order) ==
  IF dups = <<>> THEN Q
  ELSE hard_dedupe_groups(hard_dedupe_group(Q, Head(dups), order), Tail(dups), order)

hard_dedupe(Q, order) == hard_dedupe_groups(Q, DupKeys(Q), order)

\* dedupe_history_seats, one history row h of the list fetched at the start:
\* seat_record_id <> ? is true of no row when either side is NULL.
dedupe_history_row(Q, h) ==
  LET other(r) == /\ SeatKey(r) = SeatKey(h)
                  /\ h.seat_record_id # NullId
                  /\ r.seat_record_id # NullId
                  /\ r.seat_record_id # h.seat_record_id
      Q1 == [i \in 1..Len(Q) |->
              IF other(Q[i])
              THEN [Q[i] EXCEPT !.assigned_entity_type = h.assigned_entity_type,
                                !.assigned_person_id = h.assigned_person_id,
                                !.assigned_placeholder_id = h.assigned_placeholder_id,
                                !.health_status = h.health_status,
                                !.note = <<TAG>>]
              ELSE Q[i]]
  IN IF \E i \in 1..Len(Q) : other(Q[i])
     THEN SelectSeq(Q1, LAMBDA r : r.seat_record_id # h.seat_record_id)
     ELSE Q

RECURSIVE dedupe_history_rows(_, _)
dedupe_history_rows(Q, hist) ==
  IF hist = <<>> THEN Q
  ELSE dedupe_history_rows(dedupe_history_row(Q, Head(hist)), Tail(hist))

\* hist: SELECT ... WHERE note = TAG, fetched once before the loop.
dedupe_history_seats(Q) ==
  dedupe_history_rows(Q, SelectSeq(Q, LAMBDA r : r.note = <<TAG>>))

HistoryInKey(Q, b) == \E j \in 1..Len(Q) : SeatKey(Q[j]) = SeatKey(b) /\ HasTag(Q[j].note)

\* b.note IS NULL OR TRIM(b.note) = ''
BlankNote(n) == n = NullText \/ strip(n) = <<>>

\* b.health_status IS NULL OR TRIM(b.health_status) = '' OR b.health_status = 'UNFILLED'
UnfilledHealth(hs) == hs \in {NULL, "", "UNFILLED"}

\* prune v1: blank = entity type UNASSIGNED/''/NULL and health UNFILLED/''/NULL; the
\* history row h may be b itself; DELETE ... WHERE seat_record_id IN (...) never
\* matches a row whose seat_record_id is NULL.
prune_v1(Q) ==
  LET blank(b) == /\ b.assigned_entity_type \in {"UNASSIGNED", "", NULL}
                  /\ b.health_status \in {"UNFILLED", "", NULL}
      ids == {Q[i].seat_record_id : i \in {i \in 1..Len(Q) : blank(Q[i]) /\ HistoryInKey(Q, Q[i])}}
  IN SelectSeq(Q, LAMBDA r : ~(r.seat_record_id # NullId /\ r.seat_record_id \in ids))

\* prune v2: blank = no person, no placeholder, empty note, unfilled health, and a
\* history row with a different (non-NULL) seat_record_id in the key.
prune_v2(Q) ==
  LET blank(b) == /\ b.assigned_person_id = NULL
                  /\ b.assigned_placeholder_id = NullText
                  /\ BlankNote(b.note)
                  /\ UnfilledHealth(b.health_status)
      hist(b) == \E j \in 1..Len(Q) : /\ SeatKey(Q[j]) = SeatKey(b)
                                      /\ HasTag(Q[j].note)
                                      /\ b.seat_record_id # NullId
                                      /\ Q[j].seat_record_id # NullId
                                      /\ b.seat_record_id # Q[j].seat_record_id
      ids == {Q[i].seat_record_id : i \in {i \in 1..Len(Q) : blank(Q[i]) /\ hist(Q[i])}}
  IN SelectSeq(Q, LAMBDA r : ~(r.seat_record_id # NullId /\ r.seat_record_id \in ids))

\* prune v3: by rowid, rows whose seat_record_id IS NULL and entity type is NONE.
prune_v3(Q) ==
  LET blank(b) == /\ b.seat_record_id = NullId
                  /\ b.assigned_entity_type = "NONE"
                  /\ b.assigned_person_id = NULL
                  /\ b.assigned_placeholder_id = NullText
                  /\ BlankNote(b.note)
                  /\ UnfilledHealth(b.health_status)
  IN SelectSeq(Q, LAMBDA r : ~(blank(r) /\ HistoryInKey(Q, r)))

\* ------------------------------------------------------------- manual edit
\* No script writes first_out_override_unit_id; an operator sets or clears it
\* on a shift's config row.
set_override(T, sid, unit) ==
  [T EXCEPT !.cfg = {IF c.shift_id = sid THEN [c EXCEPT !.first_out_override_unit_id = unit]
                     ELSE c : c \in @}]

\* --------------------------------------------------------- fragility radar
\* The roster: people in table order, rows of [person_id, active, medical_cert,
\* willing_attend], and the ops rows [person_id, unit_id, can_operate].  Radar v1
\* reads the same facts through the column names it looks for (cert_level,
\* willing_to_attend) and takes every ops row as a capability.
CertUpper(w) == CASE w = "emt" -> "EMT" [] w = "aemt" -> "AEMT" [] w = "als" -> "ALS"
                  [] w = "paramedic" -> "PARAMEDIC" [] w = "medic" -> "MEDIC"
                  [] OTHER -> w

\* (s or "").strip().upper()
norm_cert(s) == IF s = NULL THEN "" ELSE CertUpper(s)

is_als(cert) == norm_cert(cert) \in {"ALS", "PARAMEDIC", "MEDIC"}

is_emt_or_higher(cert) == norm_cert(cert) \in {"EMT", "AEMT", "ALS", "PARAMEDIC", "MEDIC"}

\* The helpers of the same names nested in main of fragility_radar_v1.
v1_is_als(p) == norm_cert(p.medical_cert) \in {"ALS", "PARAMEDIC"}

v1_is_emt_or_higher(p) == norm_cert(p.medical_cert) \in {"EMT", "AEMT", "ALS", "PARAMEDIC"}

\* ops_by_unit[unit]: v2 loads the rows WHERE can_operate = 1, v1 every row.
ops_by_unit(R, unit) == {o.person_id : o \in {o \in R.ops : o.unit_id = unit /\ o.can_operate = 1}}

v1_ops_by_unit(R, unit) == {o.person_id : o \in {o \in R.ops : o.unit_id = unit}}

eligible_attendant_pool(R) ==
  SelectSeq(R.people, LAMBDA p : p.active = 1 /\ p.willing_attend = 1
                                 /\ is_emt_or_higher(p.medical_cert))

\* a flag that swaps the medical drivers for the non-medical ones
eligible_driver_pool_swap(R, unit_id, allow_nonmedical_driver) ==
  SelectSeq(R.people, LAMBDA p : /\ p.active = 1
                                 /\ p.person_id \in ops_by_unit(R, unit_id)
                                 /\ (allow_nonmedical_driver = ~is_emt_or_higher(p.medical_cert)))

eligible_driver_pool(R, unit_id, allow_nonmedical_driver) ==
  SelectSeq(R.people, LAMBDA p : /\ p.active = 1
                                 /\ p.person_id \in ops_by_unit(R, unit_id)
                                 /\ (allow_nonmedical_driver \/ is_emt_or_higher(p.medical_cert)))

v1_attendant_pool(R) ==
  SelectSeq(R.people, LAMBDA p : p.active = 1 /\ p.willing_attend = 1 /\ v1_is_emt_or_higher(p))

v1_driver_pool(R, unit, allow_nonmedical_driver) ==
  SelectSeq(R.people, LAMBDA p : /\ p.active = 1
                                 /\ p.person_id \in v1_ops_by_unit(R, unit)
                                 /\ (allow_nonmedical_driver \/ v1_is_emt_or_higher(p)))

\* sc_shifts s LEFT JOIN sc_shift_config c ... WHERE s.week_id = ? ORDER BY
\* s.shift_start: a shift without a config row has NULL config columns.
StartKey(s) == s.shift_start[1] * 24 + s.shift_start[2]

RECURSIVE OrderByStart(_)
OrderByStart(S) ==
  IF S = {} THEN <<>>
  ELSE LET s == CHOOSE x \in S : \A y \in S : StartKey(x) <= StartKey(y)
       IN <<s>> \o OrderByStart(S \ {s})

JoinConfig(T, s) ==
  IF HasCfg(T.cfg, s.shift_id)
  THEN LET c == CHOOSE c \in T.cfg : c.shift_id = s.shift_id
       IN [shift_id |-> s.shift_id, staffed_unit_id |-> c.staffed_unit_id,
           first_out_override_unit_id |-> c.first_out_override_unit_id]
  ELSE [shift_id |-> s.shift_id, staffed_unit_id |-> NULL,
        first_out_override_unit_id |-> NULL]

WeekShifts(T, week) ==
  LET ss == OrderByStart({s \in T.shifts : s.week_id = week})
  IN [i \in 1..Len(ss) |-> JoinConfig(T, ss[i])]

Ids(pool) == [i \in 1..Len(pool) |-> pool[i].person_id]

\* Radar v2, the health scoring of one shift: status and reasons from the pools.
v2_health_no_fragile(att_pool, att_als_pool, drv_pool, unit) ==
  LET has_att == Len(att_pool) > 0
      has_drv == Len(drv_pool) > 0
      has_als == Len(att_als_pool) > 0
      status1 == IF ~has_att THEN "RED" ELSE "GREEN"
      status2 == IF ~has_drv THEN "RED" ELSE status1
  IN [status |-> IF has_att /\ ~has_als /\ status2 # "RED" THEN "YELLOW" ELSE status2,
      reasons |-> <<>>]

v2_health(att_pool, att_als_pool, drv_pool, unit) ==
  LET has_att == Len(att_pool) > 0
      has_drv == Len(drv_pool) > 0
      has_als == Len(att_als_pool) > 0
      status1 == IF ~has_att THEN "RED" ELSE "GREEN"
      reasons1 == IF ~has_att THEN <<<<"No attendant candidates">>>> ELSE <<>>
      status2 == IF ~has_drv THEN "RED" ELSE status1
      reasons2 == IF ~has_drv THEN Append(reasons1, <<"No driver candidates with ", unit, "_ops">>)
                  ELSE reasons1
      noals == has_att /\ ~has_als /\ status2 # "RED"
      status3 == IF noals THEN "YELLOW" ELSE status2
      reasons3 == IF noals THEN Append(reasons2, <<"No ALS available for attendant">>)
                  ELSE reasons2
      fragile == status3 = "GREEN" /\ (Len(att_pool) <= 1 \/ Len(drv_pool) <= 1)
  IN [status |-> IF fragile THEN "YELLOW" ELSE status3,
      reasons |-> IF fragile THEN Append(reasons3, <<"Fragile: only 1 candidate in a pool">>)
                  ELSE reasons3]

\* Radar v2, one shift of the loop: the unit, the pools, the status and reasons.
radar_v2_shift(R, wk, s, allow) ==
  LET unit == IF Truthy(s.first_out_override_unit_id) THEN s.first_out_override_unit_id
              ELSE IF Truthy(s.staffed_unit_id) THEN s.staffed_unit_id
              ELSE wk.first_out_default_unit_id
      att_pool == eligible_attendant_pool(R)
      att_als_pool == SelectSeq(att_pool, LAMBDA p : is_als(p.medical_cert))
      drv_pool == eligible_driver_pool(R, unit, allow)
      h == v2_health(att_pool, att_als_pool, drv_pool, unit)
  IN [shift_id |-> s.shift_id, unit |-> unit, att_pool |-> Ids(att_pool),
      att_als_pool |-> Ids(att_als_pool), drv_pool |-> Ids(drv_pool),
      status |-> h.status, reasons |-> h.reasons]

\* Radar v1, the health scoring of one shift.
v1_health(attendant_pool, attendant_als_pool, driver_pool) ==
  LET has_attendant == Len(attendant_pool) > 0
      has_driver == Len(driver_pool) > 0
      has_als_attendant == Len(attendant_als_pool) > 0
      status1 == IF ~has_attendant THEN "RED" ELSE "GREEN"
      reasons1 == IF ~has_attendant THEN <<<<"No attendant candidates">>>> ELSE <<>>
      status2 == IF ~has_driver THEN "RED" ELSE status1
      reasons2 == IF ~has_driver THEN Append(reasons1, <<"No driver candidates for unit ops">>)
                  ELSE reasons1
      noals == has_attendant /\ ~has_als_attendant
      status3 == IF noals /\ status2 # "RED" THEN "YELLOW" ELSE status2
      reasons3 == IF noals THEN Append(reasons2, <<"No ALS available for attendant">>)
                  ELSE reasons2
      fragile == status3 = "GREEN" /\ (Len(attendant_pool) <= 1 \/ Len(driver_pool) <= 1)
  IN [status |-> IF fragile THEN "YELLOW" ELSE status3,
      reasons |-> IF fragile
                  THEN Append(reasons3, <<"Fragile: only 1 candidate in a seat pool">>)
                  ELSE reasons3]

\* Radar v1, one shift of the loop.
radar_v1_shift(R, s, allow) ==
  LET unit == IF Truthy(s.first_out_override_unit_id) THEN s.first_out_override_unit_id
              ELSE s.staffed_unit_id
      attendant_pool == v1_attendant_pool(R)
      attendant_als_pool == SelectSeq(attendant_pool, LAMBDA p : v1_is_als(p))
      driver_pool == v1_driver_pool(R, unit, allow)
      h == v1_health(attendant_pool, attendant_als_pool, driver_pool)
  IN [shift_id |-> s.shift_id, unit |-> unit, att_pool |-> Ids(attendant_pool),
      att_als_pool |-> Ids(attendant_als_pool), drv_pool |-> Ids(driver_pool),
      status |-> h.status, reasons |-> h.reasons]

\* main: SystemExit when the week is not in sc_weeks, else one report per shift.
radar_v2(T, R, week, allow) ==
  IF ~HasWeek(T.weeks, week) THEN [ok |-> FALSE, out |-> <<>>]
  ELSE LET wk == CHOOSE w \in T.weeks : w.week_id = week
           ss == WeekShifts(T, week)
       IN [ok |-> TRUE, out |-> [i \in 1..Len(ss) |-> radar_v2_shift(R, wk, ss[i], allow)]]

radar_v1(T, R, week, allow) ==
  IF ~HasWeek(T.weeks, week) THEN [ok |-> FALSE, out |-> <<>>]
  ELSE LET ss == WeekShifts(T, week)
       IN [ok |-> TRUE, out |-> [i \in 1..Len(ss) |-> radar_v1_shift(R, ss[i], allow)]]

\* ------------------------------------------------------------------- inputs
V3Files ==
  {<<[date |-> <<"ymd", 0>>, slot |-> "DAY", attendant |-> <<"a", " ", "b">>,
      driver |-> <<>>, notes |-> <<>>]>>,
   <<[date |-> <<"ymd", 9>>, slot |-> "night", attendant |-> <<>>,
      driver |-> <<"P", "H", "_", "a">>, notes |-> <<"x">>]>>}

V2Files ==
  {<<[date |-> <<"ymd", 0>>, slot |-> "DAY", als |-> <<>>, drv |-> <<>>]>>,
   <<[date |-> <<"mdy", 9>>, slot |-> "n", als |-> <<"a", " ", "b">>, drv |-> <<>>]>>}

Scans == {"first", "last"}

OverrideTargets == {shift_id_for(week_id_for(s), 0, "DAY") : s \in Starts}
OverrideUnits == {"AMB131", NULL}

\* ------------------------------------------------------------------ machine
\* lastOp records the last run: its script, whether it committed, its start date
\* and unit, the unit list it was given, and how many seat rows it inserted.
Op(name, ok, start, unit, units) ==
  [op |-> name, ok |-> ok, start |-> start, unit |-> unit, units |-> units, ins |-> 0]

Commit(T, op) ==
  /\ weeks' = T.weeks
  /\ shifts' = T.shifts
  /\ cfg' = T.cfg
  /\ seats' = T.seats
  /\ lastOp' = [op EXCEPT !.ins = Len(T.seats) - Len(seats)]
  /\ nOps' = nOps + 1
  /\ UNCHANGED roster

\* The sc_* tables and the legacy tables share no row and no script: a run is
\* explored over one family of tables at a time.
EmptyLegacy == [weeks |-> {}, shifts |-> {}, cfg |-> {}, seats |-> <<>>, next_uuid |-> 1]
ScOnly == legacy = EmptyLegacy

\* The roster tables (people, person_ops) before the roster is loaded.
EmptyRoster == [people |-> <<>>, ops |-> {}]
LegacyOnly == weeks = {} /\ shifts = {} /\ cfg = {} /\ seats = <<>>

Init ==
  /\ weeks = {}
  /\ shifts = {}
  /\ cfg = {}
  /\ seats = <<>>
  /\ legacy = EmptyLegacy
  /\ roster = EmptyRoster
  /\ lastOp = Op("init", TRUE, 0, NULL, <<>>)
  /\ nOps = 0

\* main of ensure_dec2025_weeks_and_tow_v1: ensure_week(start, rotation[i]).
EnsureWeek(start, rotation, i) ==
  /\ nOps < MaxOps
  /\ ScOnly
  /\ Commit(ensure_week(Store, start, rotation[i]),
            Op("ensure_week", TRUE, start, rotation[i], rotation))
  /\ UNCHANGED legacy

\* main of apply_tow_rotation_dec2025: ensure_week(start, rotation[i]).
EnsureWeekTow(start, rotation, i) ==
  /\ nOps < MaxOps
  /\ ScOnly
  /\ LET r == ensure_week_tow(Store, start, rotation[i])
     IN Commit(r.T, Op("ensure_week_tow", r.ok, start, rotation[i], rotation))
  /\ UNCHANGED legacy

\* main of create_week: ensure_week_not_exists, then create_week.
run_create_week(L, start, first_out, tbl) ==
  IF ensure_week_not_exists(L, start)
  THEN [L |-> create_week(L, start, first_out, tbl), ok |-> TRUE]
  ELSE [L |-> L, ok |-> FALSE]

CreateWeek(start, first_out, tbl) ==
  /\ nOps < MaxOps
  /\ LegacyOnly
  /\ LET r == run_create_week(legacy, start, first_out, tbl)
     IN /\ legacy' = r.L
        /\ lastOp' = [Op("create_week", r.ok, start, first_out, units_list(tbl))
                        EXCEPT !.ins = Len(r.L.seats) - Len(legacy.seats)]
  /\ nOps' = nOps + 1
  /\ UNCHANGED <<weeks, shifts, cfg, seats, roster>>

ApplyTow(start, tow_unit) ==
  /\ nOps < MaxOps
  /\ ScOnly
  /\ Commit(apply_tow(Store, start, tow_unit), Op("apply_tow", TRUE, start, tow_unit, <<>>))
  /\ UNCHANGED legacy

ApplyWeekFirstOut(start, first_out) ==
  /\ nOps < MaxOps
  /\ ScOnly
  /\ Commit(apply_week_first_out(Store, start, first_out),
            Op("apply_week_first_out", TRUE, start, first_out, <<>>))
  /\ UNCHANGED legacy

ImportV3(rows) ==
  /\ nOps < MaxOps
  /\ ScOnly
  /\ LET r == import_v3(Store, rows) IN Commit(r.T, Op("import_v3", r.ok, 0, NULL, <<>>))
  /\ UNCHANGED legacy

ImportV2(rows, scan) ==
  /\ nOps < MaxOps
  /\ ScOnly
  /\ LET r == import_v2(Store, rows, scan) IN Commit(r.T, Op("import_v2", r.ok, 0, NULL, <<>>))
  /\ UNCHANGED legacy

SetOverride(sid, unit) ==
  /\ nOps < MaxOps
  /\ ScOnly
  /\ \E c \in cfg : c.shift_id = sid /\ c.first_out_override_unit_id # unit
  /\ Commit(set_override(Store, sid, unit), Op("set_override", TRUE, 0, unit, <<>>))
  /\ UNCHANGED legacy

Next ==
  \/ \E start \in Starts, rot \in Rotations : \E i \in 1..Len(rot) : EnsureWeek(start, rot, i)
  \/ \E start \in Starts, rot \in Rotations : \E i \in 1..Len(rot) : EnsureWeekTow(start, rot, i)
  \/ \E start \in Starts, u \in FirstOuts, tbl \in UnitTables : CreateWeek(start, u, tbl)
  \/ \E start \in Starts, u \in FirstOuts : ApplyTow(start, u)
  \/ \E start \in Starts, u \in FirstOuts : ApplyWeekFirstOut(start, u)
  \/ \E rows \in V3Files : ImportV3(rows)
  \/ \E rows \in V2Files, scan \in Scans : ImportV2(rows, scan)
  \/ \E sid \in OverrideTargets, u \in OverrideUnits : SetOverride(sid, u)

Spec == Init /\ [][Next]_vars

\* ------------------------------------------------ reconciliation machine
\* The passes are run on a store holding one imported shift; its seat table is
\* any table of at most MaxRows rows over two keys of that shift.  A row is one
\* of the kinds the schema admits: the blank row of ensure_week (with its
\* generated id, or with a NULL id as apply_tow_rotation inserts it), the legacy
\* UNASSIGNED blank, the history rows the importers write, an assigned person,
\* and a history row whose assignment was cleared.
MaxRows == 3

ReadOrders == {"rowid", "reverse"}

RecShift == imp_shift_id_for(0, "DAY")

RecBase ==
  imp_ensure_shift(imp_ensure_week([weeks |-> {}, shifts |-> {}, cfg |-> {}, seats |-> <<>>], 0),
                   0, "DAY")

RecKey == <<"AMB120", "ATTENDANT", "PRIMARY">>

\* The same unit and seat in the other layer: a different key.
OtherKey == <<"AMB120", "ATTENDANT", "SHADOW">>

RecKind(noid, aet, person, placeholder, hs, note) ==
  [noid |-> noid, assigned_entity_type |-> aet, assigned_person_id |-> person,
   assigned_placeholder_id |-> placeholder, health_status |-> hs, note |-> note]

RecKinds ==
  {RecKind(FALSE, "NONE", NULL, NullText, "UNFILLED", NullText),
   RecKind(TRUE, "NONE", NULL, NullText, "UNFILLED", NullText),
   RecKind(FALSE, "UNASSIGNED", NULL, NullText, "UNFILLED", <<>>),
   RecKind(FALSE, "PLACEHOLDER", NULL, PH_EMS, "FILLED", <<TAG>>),
   RecKind(FALSE, "PLACEHOLDER", NULL, PH_FIRE, "FILLED", <<TAG, " | ", "x">>),
   RecKind(FALSE, "PERSON", "p1", NullText, "FILLED", NullText),
   RecKind(FALSE, "NONE", NULL, NullText, "UNFILLED", <<TAG>>)}

RecRow(n, key, kind) ==
  [seat_record_id |-> IF kind.noid THEN NullId ELSE Uuid(n), shift_id |-> RecShift,
   unit_id |-> key[1], seat_id |-> key[2], layer |-> key[3],
   assigned_entity_type |-> kind.assigned_entity_type,
   assigned_person_id |-> kind.assigned_person_id,
   assigned_placeholder_id |-> kind.assigned_placeholder_id,
   health_status |-> kind.health_status, note |-> kind.note]

\* A row is any kind under RecKey, or a generated blank or an imported history
\* row under OtherKey.
RecCells ==
  ({RecKey} \X RecKinds)
    \cup ({OtherKey} \X {RecKind(FALSE, "NONE", NULL, NullText, "UNFILLED", NullText),
                          RecKind(FALSE, "PLACEHOLDER", NULL, PH_EMS, "FILLED", <<TAG>>)})

\* Rows in rowid order; their ids rise or fall with the rowid.
RecTable(n, up, f) == [i \in 1..n |-> RecRow(IF up THEN i ELSE n + 1 - i, f[i][1], f[i][2])]

\* lastOp records the pass that ran, the read order it used and the table it ran on.
RecOp(name, order) == [op |-> name, order |-> order, before |-> seats]

InitRec ==
  /\ weeks = RecBase.weeks
  /\ shifts = RecBase.shifts
  /\ cfg = RecBase.cfg
  /\ \E n \in 0..MaxRows, up \in BOOLEAN :
       \E f \in [1..n -> RecCells] : seats = RecTable(n, up, f)
  /\ legacy = EmptyLegacy
  /\ roster = EmptyRoster
  /\ lastOp = [op |-> "init", order |-> "rowid", before |-> <<>>]
  /\ nOps = 0

RunPass(name, order, Q) ==
  /\ seats' = Q
  /\ lastOp' = RecOp(name, order)
  /\ UNCHANGED <<weeks, shifts, cfg, legacy, roster, nOps>>

HardDedupe(order) == RunPass("hard_dedupe", order, hard_dedupe(seats, order))

DedupeHistory == RunPass("dedupe_history", "rowid", dedupe_history_seats(seats))

PruneV1 == RunPass("prune_v1", "rowid", prune_v1(seats))

PruneV2 == RunPass("prune_v2", "rowid", prune_v2(seats))

PruneV3 == RunPass("prune_v3", "rowid", prune_v3(seats))

NextRec ==
  \/ \E order \in ReadOrders : HardDedupe(order)
  \/ DedupeHistory
  \/ PruneV1
  \/ PruneV2
  \/ PruneV3

SpecRec == InitRec /\ [][NextRec]_vars


\* ------------------------------------------------------------ radar machine
\* The store the radars read: a generated week (first-out AMB120) whose first
\* shift carries an override, and a week the history importer created, whose one
\* shift has no config row.
RadarBase ==
  LET E0 == [weeks |-> {}, shifts |-> {}, cfg |-> {}, seats |-> <<>>]
      G == set_override(ensure_week(E0, 0, "AMB120"),
                        shift_id_for(week_id_for(0), 0, "DAY"), "AMB131")
  IN imp_ensure_shift(imp_ensure_week(G, WeekSpan + 3), WeekSpan + 3, "NIGHT")

RadarWeeks == {week_id_for(0), imp_week_id_for(WeekSpan + 3), week_id_for(2 * WeekSpan + 2)}

\* Rosters of at most MaxPeople people.  A person is one choice of (active,
\* willing_attend), of certificate text and of ops rows.
MaxPeople == 2

PersonFlags == <<<<1, 1>>, <<1, 0>>, <<0, 1>>>>

PersonCerts == <<"NONE", "EMT", "ALS", "medic">>

PersonOps == <<{}, {<<"AMB120", 1>>}, {<<"AMB120", 0>>}, {<<"AMB131", 1>>}>>

KindCount == Len(PersonFlags) * Len(PersonCerts) * Len(PersonOps)

KindFlags(k) == PersonFlags[((k - 1) % Len(PersonFlags)) + 1]

KindCert(k) == PersonCerts[(((k - 1) \div Len(PersonFlags)) % Len(PersonCerts)) + 1]

KindOps(k) == PersonOps[((k - 1) \div (Len(PersonFlags) * Len(PersonCerts))) + 1]

RosterOf(f) ==
  [people |-> [i \in 1..Len(f) |->
                 [person_id |-> <<"P", i>>, active |-> KindFlags(f[i])[1],
                  medical_cert |-> KindCert(f[i]), willing_attend |-> KindFlags(f[i])[2]]],
   ops |-> UNION {{[person_id |-> <<"P", i>>, unit_id |-> o[1], can_operate |-> o[2]] :
                     o \in KindOps(f[i])} : i \in 1..Len(f)}]

RadarOp(name, week, allow, r) ==
  [op |-> name, ok |-> r.ok, week |-> week, allow |-> allow, out |-> r.out]

InitRadar ==
  /\ weeks = RadarBase.weeks
  /\ shifts = RadarBase.shifts
  /\ cfg = RadarBase.cfg
  /\ seats = <<>>
  /\ legacy = EmptyLegacy
  /\ \E n \in 0..MaxPeople :
       \E f \in [1..n -> 1..KindCount] :
         /\ \A i \in 1..n : \A j \in 1..n : i <= j => f[i] <= f[j]
         /\ roster = RosterOf(f)
  /\ lastOp = RadarOp("init", NullId, FALSE, [ok |-> TRUE, out |-> <<>>])
  /\ nOps = 0

\* The radars read the store and the roster and write nothing, so a second run
\* starts where the first one did: a behaviour holds one run.
RunRadar(name, week, allow, r) ==
  /\ lastOp.op = "init"
  /\ lastOp' = RadarOp(name, week, allow, r)
  /\ UNCHANGED <<weeks, shifts, cfg, seats, legacy, roster, nOps>>

RadarV1(week, allow) == RunRadar("radar_v1", week, allow, radar_v1(Store, roster, week, allow))

RadarV2(week, allow) == RunRadar("radar_v2", week, allow, radar_v2(Store, roster, week, allow))

NextRadar ==
  \/ \E week \in RadarWeeks, allow \in BOOLEAN : RadarV1(week, allow)
  \/ \E week \in RadarWeeks, allow \in BOOLEAN : RadarV2(week, allow)

SpecRadar == InitRadar /\ [][NextRadar]_vars

\* --------------------------------------------------------- rotation runs
\* The two generator mains as whole runs: N weeks from start1, one commit.
WeekStep == 7

\* tow = rotation[i % len(rotation)], i counted from 0
rotation_unit_no_wrap(rotation, i) ==
  rotation[IF i < Len(rotation) THEN i + 1 ELSE Len(rotation)]

rotation_unit(rotation, i) == rotation[(i % Len(rotation)) + 1]

RECURSIVE ensure_weeks(_, _, _, _, _)
ensure_weeks(T, start1, n, rotation, i) ==
  IF i >= n THEN T
  ELSE ensure_weeks(ensure_week(T, start1 + WeekStep * i, rotation_unit(rotation, i)),
                    start1, n, rotation, i + 1)

RECURSIVE apply_tows(_, _, _, _, _)
apply_tows(T, start1, n, rotation, i) ==
  IF i >= n THEN T
  ELSE apply_tows(apply_tow(T, start1 + WeekStep * i, rotation_unit(rotation, i)),
                  start1, n, rotation, i + 1)

\* main of ensure_dec2025_weeks_and_tow_v1: the ensure loop, the apply loop, commit.
ensure_main(T, start1, n, rotation) ==
  [T |-> apply_tows(ensure_weeks(T, start1, n, rotation, 0), start1, n, rotation, 0),
   ok |-> TRUE]

\* main of apply_tow_rotation_dec2025: ensure_week and apply_week_first_out week
\* by week; an insert that fails ends the run before the commit.
RECURSIVE tow_weeks(_, _, _, _, _)
tow_weeks(T, start1, n, rotation, i) ==
  IF i >= n THEN [T |-> T, ok |-> TRUE]
  ELSE LET start == start1 + WeekStep * i
           r == ensure_week_tow(T, start, rotation_unit(rotation, i))
       IN IF ~r.ok THEN [T |-> T, ok |-> FALSE]
          ELSE tow_weeks(apply_week_first_out(r.T, start, rotation_unit(rotation, i)),
                         start1, n, rotation, i + 1)

tow_main(T, start1, n, rotation) ==
  LET r == tow_weeks(T, start1, n, rotation, 0)
  IN IF r.ok THEN r ELSE [T |-> T, ok |-> FALSE]

MaxRuns == 2

MaxWeeks == 4

RunStarts == {0, WeekStep}

\* --weeks, default 4
DefaultWeeks == 4

RunWeeks == {1, 2, DefaultWeeks, MaxWeeks}

RunRotations == {<<"AMB120", "AMB121", "AMB131">>}

RunFiles ==
  {<<[date |-> <<"ymd", WeekStep + 2>>, slot |-> "night", attendant |-> <<>>,
      driver |-> <<"P", "H", "_", "a">>, notes |-> <<"x">>]>>}

RunOp(name, ok, start1, n, rotation) ==
  [op |-> name, ok |-> ok, start1 |-> start1, n |-> n, rotation |-> rotation,
   before |-> [weeks |-> weeks, cfg |-> cfg]]

CommitRun(T, op) ==
  /\ weeks' = T.weeks
  /\ shifts' = T.shifts
  /\ cfg' = T.cfg
  /\ seats' = T.seats
  /\ lastOp' = op
  /\ nOps' = nOps + 1
  /\ UNCHANGED <<legacy, roster>>

InitRun ==
  /\ weeks = {}
  /\ shifts = {}
  /\ cfg = {}
  /\ seats = <<>>
  /\ legacy = EmptyLegacy
  /\ roster = EmptyRoster
  /\ lastOp = [op |-> "init", ok |-> TRUE, start1 |-> 0, n |-> 0, rotation |-> <<>>,
               before |-> [weeks |-> {}, cfg |-> {}]]
  /\ nOps = 0

EnsureMain(start1, n, rotation) ==
  /\ nOps < MaxRuns
  /\ LET r == ensure_main(Store, start1, n, rotation)
     IN CommitRun(r.T, RunOp("ensure_main", r.ok, start1, n, rotation))

TowMain(start1, n, rotation) ==
  /\ nOps < MaxRuns
  /\ LET r == tow_main(Store, start1, n, rotation)
     IN CommitRun(r.T, RunOp("tow_main", r.ok, start1, n, rotation))

ImportRun(rows) ==
  /\ nOps < MaxRuns
  /\ LET r == import_v3(Store, rows)
     IN CommitRun(r.T, RunOp("import_v3", r.ok, 0, 0, <<>>))

NextRun ==
  \/ \E start1 \in RunStarts, n \in RunWeeks, rot \in RunRotations : EnsureMain(start1, n, rot)
  \/ \E start1 \in RunStarts, n \in RunWeeks, rot \in RunRotations : TowMain(start1, n, rot)
  \/ \E rows \in RunFiles : ImportRun(rows)

SpecRun == InitRun /\ [][NextRun]_vars


\* ------------------------------------------------- placeholder normalisers
\* Characters of the modelled alphabet: letters, the blank, the underscore and
\* two punctuation marks.
SpaceChars == {" "}
NonWordChars == {" ", "?", "-"}
NonAlnumChars == NonWordChars \cup {"_"}

RECURSIVE drop_run(_, _)
drop_run(s, bad) == IF s # <<>> /\ Head(s) \in bad THEN drop_run(Tail(s), bad) ELSE s

\* re.sub(r"[bad]+", rep, s)
RECURSIVE sub_runs(_, _, _)
sub_runs(s, bad, rep) ==
  IF s = <<>> THEN <<>>
  ELSE IF Head(s) \in bad THEN rep \o sub_runs(drop_run(Tail(s), bad), bad, rep)
  ELSE <<Head(s)>> \o sub_runs(Tail(s), bad, rep)

\* re.sub(r"[bad]", "", s)
delete_chars(s, bad) == SelectSeq(s, LAMBDA c : c \notin bad)

RECURSIVE rdrop_run(_, _)
rdrop_run(s, bad) ==
  IF s # <<>> /\ s[Len(s)] \in bad THEN rdrop_run(SubSeq(s, 1, Len(s) - 1), bad) ELSE s

\* s.strip("_")
strip_underscores(s) == rdrop_run(drop_run(s, {"_"}), {"_"})

\* a canon that prefixes PH_ without looking for one
canon_always_prefix(ph0) ==
  LET ph1 == strip(ph0)
      t1 == sub_runs(ph1, SpaceChars, <<"_">>)
      t2 == sub_runs(t1, NonWordChars, <<"_">>)
      t3 == strip_underscores(sub_runs(t2, {"_"}, <<"_">>))
  IN IF ph1 = <<>> THEN ph1 ELSE PH \o upper(t3)

\* normalize_placeholders.canon
canon(ph0) ==
  LET ph1 == strip(ph0)
      ph == IF startswith(ph1, PH) THEN ph1 ELSE PH \o ph1
      t0 == SubSeq(ph, 4, Len(ph))
      t1 == sub_runs(t0, SpaceChars, <<"_">>)
      t2 == sub_runs(t1, NonWordChars, <<"_">>)
      t3 == strip_underscores(sub_runs(t2, {"_"}, <<"_">>))
  IN IF ph1 = <<>> THEN ph1 ELSE PH \o upper(t3)

\* import_history_month_2025_12.normalize_placeholder
normalize_placeholder(name) ==
  LET n1 == sub_runs(strip(name), SpaceChars, <<"_">>)
      n == upper(delete_chars(n1, NonWordChars))
  IN IF n = <<>> THEN <<>>
     ELSE IF startswith(n, PH) THEN n
     ELSE PH \o n

\* import_history_dec2025_v2: f"PH_{upper.replace(' ', '_')}"
v2_placeholder_id(name) == PH \o replace_space(upper(strip(name)))

\* import_history_month_2025_12_v3.upsert_seat: the id as typed when it starts
\* with PH_, else PH_ and the name with its blanks replaced.
v3_placeholder_id(name) ==
  LET ph0 == strip(name)
  IN IF startswith(ph0, PH) THEN ph0 ELSE PH \o replace_space(ph0)

\* member_entry_server.safe_ph_from_name
safe_ph_from_name(name) ==
  LET s1 == sub_runs(strip(name), NonAlnumChars, <<"_">>)
      s == strip_underscores(sub_runs(s1, {"_"}, <<"_">>))
  IN PH \o (IF s = <<>> THEN <<"U", "n", "k", "n", "o", "w", "n">> ELSE s)

\* normalize_placeholders.main: every row with a placeholder id that canon
\* changes is updated by its seat_record_id, which matches no row when NULL.
normalize_placeholders(Q) ==
  [i \in 1..Len(Q) |->
     IF /\ Q[i].assigned_placeholder_id # NullText
        /\ Q[i].seat_record_id # NullId
        /\ canon(Q[i].assigned_placeholder_id) # Q[i].assigned_placeholder_id
     THEN [Q[i] EXCEPT !.assigned_placeholder_id = canon(@)]
     ELSE Q[i]]

\* --------------------------------------------------- import_history_dec2025_v1
v1_PH_EMS == <<"EMS_SUPERVISOR">>
v1_PH_FIRE == <<"FIRE_DIVISION">>
v1_PH_SHERM == <<"SHERMAN">>

\* The class_placeholders table: whether the database has it, and its ids.
NoPlaceholders == [exists |-> FALSE, ids |-> {}]

\* SELECT by id, INSERT when absent
ensure_placeholder(P, id) == [P EXCEPT !.ids = @ \cup {id}]

v1_parse_slot(w) ==
  LET u == UpperWord(w)
  IN IF u \in {"DAY", "AM", "A", "06-18", "06-6", "D", "DAY (06-18)"} THEN "DAY"
     ELSE IF u \in {"NIGHT", "PM", "P", "18-06", "18-6", "N", "NIGHT (18-06)"} THEN "NIGHT"
     ELSE "ERROR"

import_v1_row(T, P, r, scan) ==
  LET pd == parse_date(r.date)
      slot == v1_parse_slot(r.slot)
      sid == get_shift_id(T, pd.d, slot, scan)
      unit == get_staffed_unit(T, sid)
      als_val == strip(r.attendant)
      drv_val == strip(r.driver)
      als_ph == IF upper(als_val) = <<>> \/ upper(als_val) = OPEN THEN v1_PH_EMS ELSE als_val
      is_weekday == weekday(pd.d) <= 4
      drv_ph == IF upper(drv_val) = OPEN THEN v1_PH_SHERM
                ELSE IF drv_val = <<>> /\ is_weekday THEN v1_PH_FIRE
                ELSE IF drv_val = <<>> THEN NullText
                ELSE drv_val
      seeded == {v1_PH_EMS, v1_PH_FIRE, v1_PH_SHERM}
      P1 == IF P.exists /\ als_ph \notin seeded THEN ensure_placeholder(P, als_ph) ELSE P
      P2 == IF P.exists /\ drv_ph # NullText /\ drv_ph # <<>> /\ drv_ph \notin seeded
            THEN ensure_placeholder(P1, drv_ph) ELSE P1
      T1 == upsert_primary_seat(T, sid, unit, "ATTENDANT", "PLACEHOLDER", NULL, als_ph)
      T2 == IF drv_ph # NullText
            THEN upsert_primary_seat(T1, sid, unit, "DRIVER", "PLACEHOLDER", NULL, drv_ph)
            ELSE T1
  IN IF ~pd.ok \/ slot = "ERROR" THEN [T |-> T, P |-> P, ok |-> FALSE]
     ELSE IF sid = NullId THEN [T |-> T, P |-> P, ok |-> TRUE]
     ELSE IF ~Truthy(unit) THEN [T |-> T, P |-> P, ok |-> TRUE]
     ELSE [T |-> T2, P |-> P2, ok |-> TRUE]

RECURSIVE import_v1_rows(_, _, _, _)
import_v1_rows(T, P, rows, scan) ==
  IF rows = <<>> THEN [T |-> T, P |-> P, ok |-> TRUE]
  ELSE LET r == import_v1_row(T, P, Head(rows), scan)
       IN IF r.ok THEN import_v1_rows(r.T, r.P, Tail(rows), scan) ELSE r

\* main: the three seeded placeholders are committed before the CSV is read;
\* the rows' writes are committed together after the last row.
import_v1(T, P, rows, scan) ==
  LET P0 == IF P.exists
            THEN ensure_placeholder(ensure_placeholder(ensure_placeholder(P,
                   v1_PH_EMS), v1_PH_FIRE), v1_PH_SHERM)
            ELSE P
      r == import_v1_rows(T, P0, rows, scan)
  IN IF r.ok THEN r ELSE [T |-> T, P |-> P0, ok |-> FALSE]

\* -------------------------------------------------- import_history_month_2025_12
\* ensure_shift_sc_shifts: INSERT OR IGNORE of the columns the script knows
\* (shift_id, week_id, slot); shift_start, shift_end, label and day_index stay
\* NULL, and OR IGNORE skips a row that breaks their NOT NULL constraints.
month_ensure_shift(T, d, slot) ==
  LET sid == imp_shift_id_for(d, slot)
      row == [shift_id |-> sid, week_id |-> imp_week_id_for(d), shift_start |-> NullId,
              shift_end |-> NullId, label |-> NullId, day_index |-> NULL, slot |-> slot]
      not_null == /\ row.shift_start # NullId /\ row.shift_end # NullId
                  /\ row.label # NullId /\ row.day_index # NULL
  IN IF HasShift(T.shifts, sid) \/ ~not_null THEN T
     ELSE [T EXCEPT !.shifts = @ \cup {row}]

\* upsert_seat: INSERT OR REPLACE, placeholder id from normalize_placeholder.
month_upsert_seat(T, sid, unit, seat, placeholder_name, note) ==
  LET srid == <<sid, "PRIMARY", unit, seat>>
      n == IF strip(note) # <<>> THEN <<TAG, " | ">> \o strip(note) ELSE <<TAG>>
      row == [seat_record_id |-> srid, shift_id |-> sid, unit_id |-> unit,
              seat_id |-> seat, layer |-> "PRIMARY",
              assigned_entity_type |-> "PLACEHOLDER", assigned_person_id |-> NULL,
              assigned_placeholder_id |-> normalize_placeholder(placeholder_name),
              health_status |-> "FILLED", note |-> n]
  IN [T EXCEPT !.seats = SelectSeq(@, LAMBDA r : r.seat_record_id # srid) \o <<row>>]

import_month_row(T, r) ==
  LET pd == parse_ymd(r.date)
      slot == UpperWord(r.slot)
      d == pd.d
      sid == imp_shift_id_for(d, slot)
      T1 == month_ensure_shift(imp_ensure_week(T, d), d, slot)
      T2 == IF strip(r.attendant) # <<>>
            THEN month_upsert_seat(T1, sid, DEFAULT_UNIT, "ATTENDANT", strip(r.attendant), r.notes)
            ELSE T1
      T3 == IF strip(r.driver) # <<>>
            THEN month_upsert_seat(T2, sid, DEFAULT_UNIT, "DRIVER", strip(r.driver), r.notes)
            ELSE T2
  IN IF ~pd.ok \/ slot \notin {"DAY", "NIGHT"} THEN [T |-> T, ok |-> FALSE]
     ELSE [T |-> T3, ok |-> TRUE]

RECURSIVE import_month_rows(_, _)
import_month_rows(T, rows) ==
  IF rows = <<>> THEN [T |-> T, ok |-> TRUE]
  ELSE LET r == import_month_row(T, Head(rows))
       IN IF r.ok THEN import_month_rows(r.T, Tail(rows)) ELSE r

import_month(T, rows) ==
  LET r == import_month_rows(T, rows) IN IF r.ok THEN r ELSE [T |-> T, ok |-> FALSE]

\* The v2 importer reads the attendant and driver columns as als and drv.
as_v2_rows(rows) ==
  [i \in 1..Len(rows) |-> [date |-> rows[i].date, slot |-> rows[i].slot,
                           als |-> rows[i].attendant, drv |-> rows[i].driver]]

\* ------------------------------------------------------------- import runs
\* History imports, normalisation and reconciliation over a generated store.
MaxImports == 2

BadDate == <<"bad", 0>>

ImpGood == [date |-> <<"ymd", 0>>, slot |-> "DAY", attendant |-> <<"a", " ", "b">>,
            driver |-> <<>>, notes |-> <<>>]

\* A valid row alone; a valid row followed by a row with an unparseable date
\* or an unknown slot; a name of punctuation only; a date only the dec2025
\* importers read.
ImpFiles ==
  {<<ImpGood>>,
   <<ImpGood, [date |-> BadDate, slot |-> "DAY", attendant |-> <<"a">>,
               driver |-> <<>>, notes |-> <<>>]>>,
   <<ImpGood, [date |-> <<"ymd", 1>>, slot |-> "EVE", attendant |-> <<"a">>,
               driver |-> <<>>, notes |-> <<>>]>>,
   <<[date |-> <<"ymd", 2>>, slot |-> "night", attendant |-> <<"?">>,
      driver |-> <<"p", "h", "_", "a">>, notes |-> <<"x">>]>>,
   <<[date |-> <<"mdy", WeekSpan + 3>>, slot |-> "n", attendant |-> <<"O", "P", "E", "N">>,
      driver |-> <<"a", "-", "b">>, notes |-> <<>>]>>}

EmptyStore == [weeks |-> {}, shifts |-> {}, cfg |-> {}, seats |-> <<>>]

\* The store before the first run: empty, or with the week of day 0 generated.
ImpStarts == {0}

ImpBases == {EmptyStore} \cup {ensure_week(EmptyStore, s, "AMB120") : s \in ImpStarts}

ImpOp(name, ok, rows) ==
  [op |-> name, ok |-> ok, rows |-> rows,
   before |-> [seats |-> seats, placeholders |-> roster.class_placeholders]]

CommitImp(T, P, op) ==
  /\ weeks' = T.weeks
  /\ shifts' = T.shifts
  /\ cfg' = T.cfg
  /\ seats' = T.seats
  /\ roster' = [roster EXCEPT !.class_placeholders = P]
  /\ lastOp' = op
  /\ nOps' = nOps + 1
  /\ UNCHANGED legacy

InitImp ==
  /\ \E B \in ImpBases :
       /\ weeks = B.weeks
       /\ shifts = B.shifts
       /\ cfg = B.cfg
       /\ seats = B.seats
  /\ legacy = EmptyLegacy
  /\ \E has \in BOOLEAN :
       roster = [people |-> <<>>, ops |-> {},
                 class_placeholders |-> [exists |-> has, ids |-> {}]]
  /\ lastOp = [op |-> "init", ok |-> TRUE, rows |-> <<>>,
               before |-> [seats |-> <<>>, placeholders |-> NoPlaceholders]]
  /\ nOps = 0

ImpV1(rows, scan) ==
  /\ nOps < MaxImports
  /\ LET r == import_v1(Store, roster.class_placeholders, rows, scan)
     IN CommitImp(r.T, r.P, ImpOp("import_v1", r.ok, rows))

ImpV2(rows, scan) ==
  /\ nOps < MaxImports
  /\ LET r == import_v2(Store, as_v2_rows(rows), scan)
     IN CommitImp(r.T, roster.class_placeholders, ImpOp("import_v2", r.ok, rows))

ImpMonth(rows) ==
  /\ nOps < MaxImports
  /\ LET r == import_month(Store, rows)
     IN CommitImp(r.T, roster.class_placeholders, ImpOp("import_month", r.ok, rows))

ImpV3(rows) ==
  /\ nOps < MaxImports
  /\ LET r == import_v3(Store, rows)
     IN CommitImp(r.T, roster.class_placeholders, ImpOp("import_v3", r.ok, rows))

ImpNormalize ==
  /\ nOps < MaxImports
  /\ CommitImp([Store EXCEPT !.seats = normalize_placeholders(seats)],
               roster.class_placeholders, ImpOp("normalize_placeholders", TRUE, <<>>))

ImpHardDedupe(order) ==
  /\ nOps < MaxImports
  /\ CommitImp([Store EXCEPT !.seats = hard_dedupe(seats, order)],
               roster.class_placeholders, ImpOp("hard_dedupe", TRUE, <<>>))

ImpDedupeHistory ==
  /\ nOps < MaxImports
  /\ CommitImp([Store EXCEPT !.seats = dedupe_history_seats(seats)],
               roster.class_placeholders, ImpOp("dedupe_history", TRUE, <<>>))

ImpEnsureWeek(start, first_out) ==
  /\ nOps < MaxImports
  /\ CommitImp(ensure_week(Store, start, first_out),
               roster.class_placeholders, ImpOp("ensure_week", TRUE, <<>>))

NextImp ==
  \/ \E rows \in ImpFiles, scan \in Scans : ImpV1(rows, scan)
  \/ \E rows \in ImpFiles, scan \in Scans : ImpV2(rows, scan)
  \/ \E rows \in ImpFiles : ImpMonth(rows)
  \/ \E rows \in ImpFiles : ImpV3(rows)
  \/ ImpNormalize
  \/ \E order \in ReadOrders : ImpHardDedupe(order)
  \/ ImpDedupeHistory
  \/ \E start \in ImpStarts : ImpEnsureWeek(start, "AMB120")

SpecImp == InitImp /\ [][NextImp]_vars

\* ------------------------------------------------------- interleaved runs
\* Week-generation runs on one database file, each on its own connection. A
\* run's SELECTs before its first write read the committed store; its first
\* INSERT opens the transaction and takes the database's write lock, which it
\* holds until conn.commit(); a run that ends on an exception closes its
\* connection and its uncommitted writes are rolled back.
MaxRunners == 2

Runners == 1..MaxRunners

RunnerScripts == {"ensure", "tow", "create"}

RunnerUnits == {"AMB120", "AMB121"}

ConcStart == 0

\* week_id is the PRIMARY KEY of sc_weeks and of schedule_weeks: a plain INSERT
\* of an id the table holds raises IntegrityError.
pk_conflict_never(W, wid) == FALSE

pk_conflict(W, wid) == HasWeek(W, wid)

\* The run's existence check: SELECT by week_id (sc_weeks), by start_date
\* (schedule_weeks).
week_check(script, T, L, start) ==
  IF script = "create" THEN ~ensure_week_not_exists(L, start)
  ELSE HasWeek(T.weeks, week_id_for(start))

\* The writes of ensure_dec2025_weeks_and_tow_v1.main for one week, given what
\* its week check saw: the week INSERT when the check found no row, then the
\* per-row checks and inserts of shifts, configs and seats, then apply_tow.
conc_ensure(T, start, first_out, saw) ==
  LET wid == week_id_for(start)
      T1 == IF saw THEN T
            ELSE [T EXCEPT !.weeks = @ \cup {WeekRow(wid, start, first_out)}]
  IN IF ~saw /\ pk_conflict(T.weeks, wid) THEN [T |-> T, ok |-> FALSE]
     ELSE [T |-> apply_tow(ensure_week(T1, start, first_out), start, first_out),
           ok |-> TRUE]

\* The writes of apply_tow_rotation_dec2025.main for one week: ensure_week
\* returns when its check found the week, else inserts week, shifts, configs
\* and seats; then apply_week_first_out.
conc_tow(T, start, first_out, saw) ==
  LET wid == week_id_for(start)
      r == ensure_week_tow(T, start, first_out)
  IN IF saw THEN [T |-> apply_week_first_out(T, start, first_out), ok |-> TRUE]
     ELSE IF pk_conflict(T.weeks, wid) \/ ~r.ok THEN [T |-> T, ok |-> FALSE]
     ELSE [T |-> apply_week_first_out(r.T, start, first_out), ok |-> TRUE]

\* The writes of create_week.main after ensure_week_not_exists passed.
conc_create(L, start, first_out) ==
  IF pk_conflict(L.weeks, week_id_for(start)) THEN [L |-> L, ok |-> FALSE]
  ELSE [L |-> create_week(L, start, first_out, <<>>), ok |-> TRUE]

\* lastOp holds the runs: script and unit of each, its position (start,
\* checked, writing, done, failed), what its check saw, whether the check came
\* before every commit, the holder of the write lock (0: free) and the
\* holder's uncommitted store.
ConcState(script, unit) ==
  [op |-> "runs", script |-> script, unit |-> unit,
   pc |-> [p \in Runners |-> "start"],
   saw |-> [p \in Runners |-> FALSE],
   early |-> [p \in Runners |-> FALSE],
   lock |-> 0,
   pending |-> [T |-> EmptyStore, L |-> EmptyLegacy]]

InitConc ==
  /\ weeks = {}
  /\ shifts = {}
  /\ cfg = {}
  /\ seats = <<>>
  /\ legacy = EmptyLegacy
  /\ roster = EmptyRoster
  /\ \E script \in [Runners -> RunnerScripts], unit \in [Runners -> RunnerUnits] :
       lastOp = ConcState(script, unit)
  /\ nOps = 0

\* The week check; create_week exits when the start date has a week.
ConcCheck(p) ==
  /\ lastOp.pc[p] = "start"
  /\ LET saw == week_check(lastOp.script[p], Store, legacy, ConcStart)
     IN lastOp' = [lastOp EXCEPT
          !.saw[p] = saw,
          !.early[p] = (nOps = 0),
          !.pc[p] = IF lastOp.script[p] = "create" /\ saw THEN "failed" ELSE "checked"]
  /\ UNCHANGED <<weeks, shifts, cfg, seats, legacy, roster, nOps>>

\* The first write takes the lock; the run's inserts follow in its
\* transaction, or the week INSERT raises and the run ends.
ConcWrite(p) ==
  /\ lastOp.pc[p] = "checked"
  /\ lastOp.lock = 0
  /\ LET s == lastOp.script[p]
         u == lastOp.unit[p]
         rT == IF s = "ensure" THEN conc_ensure(Store, ConcStart, u, lastOp.saw[p])
               ELSE IF s = "tow" THEN conc_tow(Store, ConcStart, u, lastOp.saw[p])
               ELSE [T |-> Store, ok |-> TRUE]
         rL == IF s = "create" THEN conc_create(legacy, ConcStart, u)
               ELSE [L |-> legacy, ok |-> TRUE]
     IN IF rT.ok /\ rL.ok
        THEN lastOp' = [lastOp EXCEPT !.pc[p] = "writing", !.lock = p,
                                      !.pending = [T |-> rT.T, L |-> rL.L]]
        ELSE lastOp' = [lastOp EXCEPT !.pc[p] = "failed"]
  /\ UNCHANGED <<weeks, shifts, cfg, seats, legacy, roster, nOps>>

\* The first write while another run holds the lock: the busy timeout ends and
\* sqlite3 raises OperationalError (database is locked).
ConcBusy(p) ==
  /\ lastOp.pc[p] = "checked"
  /\ lastOp.lock \notin {0, p}
  /\ lastOp' = [lastOp EXCEPT !.pc[p] = "failed"]
  /\ UNCHANGED <<weeks, shifts, cfg, seats, legacy, roster, nOps>>

\* conn.commit()
ConcCommit(p) ==
  /\ lastOp.pc[p] = "writing"
  /\ lastOp.lock = p
  /\ weeks' = lastOp.pending.T.weeks
  /\ shifts' = lastOp.pending.T.shifts
  /\ cfg' = lastOp.pending.T.cfg
  /\ seats' = lastOp.pending.T.seats
  /\ legacy' = lastOp.pending.L
  /\ lastOp' = [lastOp EXCEPT !.pc[p] = "done", !.lock = 0,
                              !.pending = [T |-> EmptyStore, L |-> EmptyLegacy]]
  /\ nOps' = nOps + 1
  /\ UNCHANGED roster

NextConc ==
  \/ \E p \in Runners : ConcCheck(p)
  \/ \E p \in Runners : ConcWrite(p)
  \/ \E p \in Runners : ConcBusy(p)
  \/ \E p \in Runners : ConcCommit(p)

SpecConc == InitConc /\ [][NextConc]_vars

\* ------------------------------------------------------- normaliser runs
\* One name written in several ways: two words, each in lower or upper case,
\* separated by a run of blanks, underscores or hyphens, with or without a
\* PH_ prefix in either case. Each normaliser is applied to the written name.
MaxSepLen == 2

NameWords == {<<"a">>, <<"A">>, <<"a", "B">>} \X {<<"b">>, <<"B">>}

SepChars == {" ", "_", "-"}

Separators == UNION {[1..n -> SepChars] : n \in 1..MaxSepLen}

NamePrefixes == {<<>>, PH, <<"p", "h", "_">>}

Normalisers ==
  {"canon", "normalize_placeholder", "v2_placeholder_id", "v3_placeholder_id",
   "safe_ph_from_name"}

apply_normaliser(f, name) ==
  CASE f = "canon" -> canon(name)
    [] f = "normalize_placeholder" -> normalize_placeholder(name)
    [] f = "v2_placeholder_id" -> v2_placeholder_id(name)
    [] f = "v3_placeholder_id" -> v3_placeholder_id(name)
    [] f = "safe_ph_from_name" -> safe_ph_from_name(name)

NormOp(op, words, name, id) == [op |-> op, words |-> words, name |-> name, id |-> id]

InitNorm ==
  /\ weeks = {}
  /\ shifts = {}
  /\ cfg = {}
  /\ seats = <<>>
  /\ legacy = EmptyLegacy
  /\ roster = EmptyRoster
  /\ \E w \in NameWords, sep \in Separators, pre \in NamePrefixes :
       lastOp = NormOp("name", w, pre \o w[1] \o sep \o w[2], <<>>)
  /\ nOps = 0

Normalise(f) ==
  /\ lastOp.op = "name"
  /\ lastOp' = NormOp(f, lastOp.words, lastOp.name, apply_normaliser(f, lastOp.name))
  /\ nOps' = nOps + 1
  /\ UNCHANGED <<weeks, shifts, cfg, seats, legacy, roster>>

NormCanon == Normalise("canon")

NormMonth == Normalise("normalize_placeholder")

NormV2 == Normalise("v2_placeholder_id")

NormV3 == Normalise("v3_placeholder_id")

NormEntry == Normalise("safe_ph_from_name")

NextNorm == NormCanon \/ NormMonth \/ NormV2 \/ NormV3 \/ NormEntry

SpecNorm == InitNorm /\ [][NextNorm]_vars

\* ------------------------------------------------------------ roster loader
\* load_roster reads a roster CSV into people and person_ops.  A CSV cell is
\* NULL (NullText for a text or a list) when its column is missing; enum and
\* flag cells are words, names and person ids are texts, the ops cell a list.
LowerCh(c) == CASE c = "A" -> "a" [] c = "B" -> "b" [] c = "P" -> "p" [] c = "H" -> "h"
                [] OTHER -> c

lower(s) == [i \in 1..Len(s) |-> LowerCh(s[i])]

\* load_roster.slugify_name
slugify_name(name) ==
  LET s == sub_runs(lower(strip(name)), NonAlnumChars, <<"_">>)
      t == strip_underscores(sub_runs(s, {"_"}, <<"_">>))
  IN IF t = <<>> THEN <<"person">> ELSE t

\* str(cell).strip().lower() of a flag word
FlagLower(w) == CASE w = "TRUE" -> "true" [] w = "Yes" -> "yes" [] w = "NO" -> "no"
                  [] OTHER -> w

\* load_roster.as_bool; every call passes default=True
as_bool(cell, default) ==
  IF cell = NULL THEN (IF default THEN 1 ELSE 0)
  ELSE IF FlagLower(cell) \in {"1", "true", "yes", "y", "on"} THEN 1
  ELSE IF FlagLower(cell) \in {"0", "false", "no", "n", "off"} THEN 0
  ELSE (IF default THEN 1 ELSE 0)

\* load_roster.normalize_enum
normalize_enum(cell, allowed, default) ==
  IF cell = NULL THEN default
  ELSE IF CertUpper(cell) \in allowed THEN CertUpper(cell) ELSE default

MedicalCerts == {"NONE", "EMT", "ALS"}

\* unit.strip().upper() of a unit word
UnitUpper(w) == CASE w = "amb120" -> "AMB120" [] w = "amb131" -> "AMB131" [] OTHER -> w

\* load_roster.split_list, then the loop's strip().upper(): the cell is the list
\* of its items, the empty ones are dropped.
split_list(cell) ==
  IF cell = NullText THEN <<>>
  ELSE SelectSeq([i \in 1..Len(cell) |-> UnitUpper(cell[i])], LAMBDA u : u # "")

\* int(row.get("target_hours_week") or 0)
parse_hours(cell) ==
  IF cell \in {NULL, ""} THEN [ok |-> TRUE, n |-> 0]
  ELSE IF cell = "40" THEN [ok |-> TRUE, n |-> 40]
  ELSE [ok |-> FALSE, n |-> 0]

PH_VOL_DUTY == <<"P", "H", "_", "VOL_DUTY">>

\* load_roster.ensure_seeded, as far as the modelled tables go
ensure_seeded(R) ==
  [R EXCEPT !.class_placeholders.ids = @ \cup {PH_FIRE, PH_EMS, PH_VOL_DUTY}]

IndexWord(i) == CASE i = 2 -> "2" [] i = 3 -> "3" [] i = 4 -> "4" [] OTHER -> "n"

HasPerson(R, pid) == \E i \in 1..Len(R.people) : R.people[i].person_id = pid

\* load_roster.person_id_for_name
RECURSIVE person_id_loop(_, _, _, _)
person_id_loop(R, display_name, base, i) ==
  LET pid == IF i = 1 THEN base ELSE base \o <<"_", IndexWord(i)>>
      same == SelectSeq(R.people, LAMBDA p : p.display_name = display_name)
  IN IF ~HasPerson(R, pid) THEN pid
     ELSE IF same # <<>> THEN same[1].person_id
     ELSE person_id_loop(R, display_name, base, i + 1)

person_id_for_name(R, display_name) ==
  person_id_loop(R, display_name, slugify_name(display_name), 1)

\* INSERT INTO people ... ON CONFLICT(person_id) DO UPDATE
upsert_person(R, p) ==
  IF HasPerson(R, p.person_id)
  THEN [R EXCEPT !.people = [i \in 1..Len(@) |->
                               IF @[i].person_id = p.person_id THEN p ELSE @[i]]]
  ELSE [R EXCEPT !.people = Append(@, p)]

\* INSERT INTO person_ops ... ON CONFLICT(person_id, unit_id) DO UPDATE SET can_operate=1
RECURSIVE upsert_ops(_, _, _)
upsert_ops(O, pid, units) ==
  IF units = <<>> THEN O
  ELSE upsert_ops({o \in O : ~(o.person_id = pid /\ o.unit_id = Head(units))}
                    \cup {[person_id |-> pid, unit_id |-> Head(units), can_operate |-> 1]},
                  pid, Tail(units))

\* One pass of the loop over the CSV rows in load_roster.
load_roster_row(R, row, dry_run) ==
  IF row.display_name = NullText \/ strip(row.display_name) = <<>>
  THEN [R |-> R, ok |-> FALSE, id |-> NullId]
  ELSE
    LET name == strip(row.display_name)
        given == IF row.person_id = NullText THEN <<>> ELSE strip(row.person_id)
        person_id == IF given # <<>> THEN given ELSE person_id_for_name(R, name)
        hours == parse_hours(row.target_hours_week)
        p == [person_id |-> person_id, display_name |-> name,
              active |-> as_bool(row.active, TRUE),
              medical_cert |-> normalize_enum(row.medical_cert, MedicalCerts, "EMT"),
              willing_attend |-> as_bool(row.willing_attend, TRUE),
              target_hours_week |-> hours.n]
        R1 == upsert_person(R, p)
    IN IF ~hours.ok THEN [R |-> R, ok |-> FALSE, id |-> NullId]
       ELSE IF dry_run THEN [R |-> R, ok |-> TRUE, id |-> person_id]
       ELSE [R |-> [R1 EXCEPT !.ops = upsert_ops(@, person_id, split_list(row.ops_units))],
             ok |-> TRUE, id |-> person_id]

RECURSIVE load_roster_rows(_, _, _, _)
load_roster_rows(R, rows, dry_run, ids) ==
  IF rows = <<>> THEN [R |-> R, ok |-> TRUE, ids |-> ids]
  ELSE LET r == load_roster_row(R, Head(rows), dry_run)
       IN IF r.ok THEN load_roster_rows(r.R, Tail(rows), dry_run, Append(ids, r.id))
          ELSE [R |-> R, ok |-> FALSE, ids |-> ids]

\* load_roster: seed, loop, and one commit at the end unless dry_run; an
\* exception or a dry run closes the connection with nothing committed.
load_roster(R, rows, dry_run) ==
  LET r == load_roster_rows(ensure_seeded(R), rows, dry_run, <<>>)
  IN IF r.ok /\ ~dry_run THEN r ELSE [R |-> R, ok |-> r.ok, ids |-> r.ids]

\* ------------------------------------------------------------- roster runs
MaxLoads == 2

CsvCerts == {"NONE", "EMT", "AEMT", "ALS", "PARAMEDIC", "MEDIC", "emt", "medic", "", NULL}

CsvRow(pid, name, cert, active, willing, hours, ops) ==
  [person_id |-> pid, display_name |-> name, medical_cert |-> cert, active |-> active,
   willing_attend |-> willing, target_hours_week |-> hours, ops_units |-> ops]

CsvPeople ==
  {CsvRow(<<"p", "1">>, <<"A", " ", "b">>, c, "1", "yes", "40", <<"amb120">>) : c \in CsvCerts}
  \cup {CsvRow(NullText, <<"A", "-", "b">>, c, NULL, "NO", "", <<"AMB131", "">>) : c \in CsvCerts}
  \cup {CsvRow(<<>>, <<"a", " ", "b">>, "ALS", "off", "maybe", NULL, NullText),
        CsvRow(NullText, NullText, "EMT", "1", "1", "40", <<>>),
        CsvRow(NullText, <<"?">>, "EMT", "1", "1", "x", <<>>)}

CsvFiles ==
  {<<r>> : r \in CsvPeople}
  \cup {<<CsvRow(NullText, <<"A", "-", "b">>, "PARAMEDIC", "1", "1", "", <<"AMB120">>),
          CsvRow(NullText, <<"a", " ", "b">>, "NONE", "1", "1", "", <<"AMB120">>)>>}

RosterOp(ok, rows, dry_run, ids) ==
  [op |-> "load_roster", ok |-> ok, rows |-> rows, dry_run |-> dry_run, ids |-> ids]

InitRoster ==
  /\ weeks = {} /\ shifts = {} /\ cfg = {} /\ seats = <<>>
  /\ legacy = EmptyLegacy
  /\ roster = [people |-> <<>>, ops |-> {}, class_placeholders |-> [exists |-> TRUE, ids |-> {}]]
  /\ lastOp = [op |-> "init", ok |-> TRUE, rows |-> <<>>, dry_run |-> FALSE, ids |-> <<>>]
  /\ nOps = 0

LoadRoster(rows, dry_run) ==
  /\ nOps < MaxLoads
  /\ LET r == load_roster(roster, rows, dry_run)
     IN /\ roster' = r.R
        /\ lastOp' = RosterOp(r.ok, rows, dry_run, r.ids)
  /\ nOps' = nOps + 1
  /\ UNCHANGED <<weeks, shifts, cfg, seats, legacy>>

NextRoster == \E rows \in CsvFiles, dry_run \in BOOLEAN : LoadRoster(rows, dry_run)

SpecRoster == InitRoster /\ [][NextRoster]_vars

\* ---------------------------------------------------------------- date runs
\* Generator and importer runs over start dates and CSV dates of every weekday:
\* neither generator main checks that --start1 is a Thursday.
MaxStart == 7

MaxDateOps == 2

DateStarts == 0..MaxStart

\* The rotation script and create_week start on a Thursday, a Sunday or the
\* Thursday after.
OtherStarts == {0, 3, WeekStep}

CsvDates == 1..MaxStart

DateOp(name, ok, d, slot) ==
  [op |-> name, ok |-> ok, d |-> d, slot |-> slot,
   before |-> [weeks |-> weeks, shifts |-> shifts]]

InitDates ==
  /\ weeks = {} /\ shifts = {} /\ cfg = {} /\ seats = <<>>
  /\ legacy = EmptyLegacy
  /\ roster = EmptyRoster
  /\ lastOp = [op |-> "init", ok |-> TRUE, d |-> 0, slot |-> NULL,
               before |-> [weeks |-> {}, shifts |-> {}]]
  /\ nOps = 0

CommitDates(r, op) ==
  /\ weeks' = r.T.weeks
  /\ shifts' = r.T.shifts
  /\ cfg' = r.T.cfg
  /\ seats' = r.T.seats
  /\ lastOp' = op
  /\ nOps' = nOps + 1
  /\ UNCHANGED <<legacy, roster>>

\* create_week --start start --first-out unit, on its own tables
DateCreate(start, unit) ==
  /\ nOps < MaxDateOps
  /\ LET r == run_create_week(legacy, start, unit, <<>>)
     IN /\ legacy' = r.L
        /\ lastOp' = DateOp("create_week", r.ok, start, NULL)
  /\ nOps' = nOps + 1
  /\ UNCHANGED <<weeks, shifts, cfg, seats, roster>>

\* ensure_dec2025_weeks_and_tow_v1 --start1 start --weeks 1 --rotate unit
DateEnsure(start, unit) ==
  /\ nOps < MaxDateOps
  /\ LET r == ensure_main(Store, start, 1, <<unit>>)
     IN CommitDates(r, DateOp("ensure_main", r.ok, start, NULL))

\* apply_tow_rotation_dec2025 for one week
DateTow(start, unit) ==
  /\ nOps < MaxDateOps
  /\ LET r == tow_main(Store, start, 1, <<unit>>)
     IN CommitDates(r, DateOp("tow_main", r.ok, start, NULL))

\* import_history_month_2025_12_v3 on a one-row CSV
DateImportV3(d, slot) ==
  /\ nOps < MaxDateOps
  /\ LET r == import_v3(Store, <<[date |-> <<"ymd", d>>, slot |-> slot, attendant |-> <<"a">>,
                                  driver |-> <<>>, notes |-> <<>>]>>)
     IN CommitDates(r, DateOp("import_v3", r.ok, d, UpperWord(slot)))

\* import_history_dec2025_v2 on a one-row CSV
DateImportV2(d, slot, scan) ==
  /\ nOps < MaxDateOps
  /\ LET r == import_v2(Store, <<[date |-> <<"ymd", d>>, slot |-> slot, als |-> <<"a">>,
                                  drv |-> <<>>]>>, scan)
     IN CommitDates(r, DateOp("import_v2", r.ok, d, UpperWord(slot)))

NextDates ==
  \/ \E start \in DateStarts : DateEnsure(start, "AMB120")
  \/ \E start \in OtherStarts : DateTow(start, "AMB121")
  \/ \E start \in OtherStarts : DateCreate(start, "AMB120")
  \/ \E d \in CsvDates, slot \in {"DAY", "night"} : DateImportV3(d, slot)
  \/ \E d \in {1, WeekStep + 1}, scan \in Scans : DateImportV2(d, "DAY", scan)

SpecDates == InitDates /\ [][NextDates]_vars

\* ------------------------------------------------------ normalisation runs
\* normalize_placeholders run on a table whose rows carry a placeholder id as
\* some script or hand wrote it: any text of up to MaxNameLen characters, with
\* or without a PH_ prefix in either case.  The second row, when present, has
\* no seat_record_id.
MaxNameLen == 3

MaxCanonRuns == 2

NameChars == {"a", "B", " ", "_", "-"}

NameTexts == UNION {[1..n -> NameChars] : n \in 0..MaxNameLen}

CanonRow(srid, seat, name) ==
  [BlankSeat(srid, RecShift, DEFAULT_UNIT, seat, "PRIMARY")
     EXCEPT !.assigned_entity_type = "PLACEHOLDER", !.assigned_placeholder_id = name,
            !.health_status = "FILLED"]

CanonOp(name, updates) == [op |-> name, updates |-> updates, before |-> seats]

\* main's counter: the rows whose id canon changes, matched by the UPDATE or not
canon_updates(Q) ==
  Len(SelectSeq(Q, LAMBDA r : /\ r.assigned_placeholder_id # NullText
                              /\ canon(r.assigned_placeholder_id) # r.assigned_placeholder_id))

InitCanon ==
  /\ weeks = {} /\ shifts = {} /\ cfg = {}
  /\ legacy = EmptyLegacy
  /\ roster = EmptyRoster
  /\ \E t \in NameTexts, pre \in NamePrefixes, two \in BOOLEAN :
       seats = <<CanonRow(gen_seat_record_id(RecShift, DEFAULT_UNIT, "ATTENDANT", "PRIMARY"),
                          "ATTENDANT", pre \o t)>>
               \o (IF two THEN <<CanonRow(NullId, "DRIVER", pre \o t)>> ELSE <<>>)
  /\ lastOp = [op |-> "init", updates |-> 0, before |-> <<>>]
  /\ nOps = 0

NormalizeRun ==
  /\ nOps < MaxCanonRuns
  /\ seats' = normalize_placeholders(seats)
  /\ lastOp' = CanonOp("normalize_placeholders", canon_updates(seats))
  /\ nOps' = nOps + 1
  /\ UNCHANGED <<weeks, shifts, cfg, legacy, roster>>

NextCanon == NormalizeRun

SpecCanon == InitCanon /\ [][NextCanon]_vars

\* =================================================================== claims
IsEnsure(op) == op \in {"ensure_week", "ensure_week_tow"}
IsApply(op) == op \in {"apply_tow", "apply_week_first_out"}

SeatIds(Q) == {Q[i].seat_record_id : i \in 1..Len(Q)}

\* C1: a run of ensure_week (either script) leaves every seat row that existed
\* before it exactly as it was (entity type, person id, placeholder id, health
\* status, note and all other columns), and every row it adds has a
\* seat_record_id no stored row had (or, in the rotation script, no id at all).
C1_EnsureKeepsSeats ==
  [][(IsEnsure(lastOp'.op) /\ nOps' = nOps + 1) =>
       /\ Len(seats') >= Len(seats)
       /\ \A i \in 1..Len(seats) : seats'[i] = seats[i]
       /\ \A i \in (Len(seats) + 1)..Len(seats') :
            \/ seats'[i].seat_record_id \notin SeatIds(seats)
            \/ lastOp'.op = "ensure_week_tow" /\ seats'[i].seat_record_id = NullId]_vars

\* ensure_week has just added rows to a store that already held a filled seat.
C1_Witness ==
  /\ lastOp.op = "ensure_week"
  /\ lastOp.ins > 0
  /\ \E i \in 1..(Len(seats) - lastOp.ins) :
       /\ seats[i].health_status = "FILLED"
       /\ seats[i].assigned_placeholder_id # NullText

\* C2: a second run of week generation with the same start date and first-out
\* unit, right after the first, changes no table: no week, shift, config or
\* seat row is added and no field changes (create_week's second run stops at
\* ensure_week_not_exists).
C2_GenerateTwice ==
  /\ lastOp.op = "ensure_week" =>
       ensure_week(Store, lastOp.start, lastOp.unit) = Store
  /\ lastOp.op = "ensure_week_tow" =>
       ensure_week_tow(Store, lastOp.start, lastOp.unit).T = Store
  /\ (lastOp.op = "create_week" /\ lastOp.ok) =>
       /\ run_create_week(legacy, lastOp.start, lastOp.unit, lastOp.units).L = legacy
       /\ ~run_create_week(legacy, lastOp.start, lastOp.unit, lastOp.units).ok

\* The first run did insert seat rows.
C2_Witness == IsEnsure(lastOp.op) /\ lastOp.ok /\ lastOp.ins > 0 /\ nOps > 1

\* ---- C3
SeatRows(Q, sid) == {Q[i] : i \in {j \in 1..Len(Q) : Q[j].shift_id = sid}}

HasSeat(Q, sid, unit, seat, layer) ==
  \E r \in SeatRows(Q, sid) : r.unit_id = unit /\ r.seat_id = seat /\ r.layer = layer

PrimaryPairs(Q, sid) ==
  {<<r.unit_id, r.seat_id>> : r \in {x \in SeatRows(Q, sid) : x.layer = "PRIMARY"}}

StaffedOf(c, first_out) ==
  IF Truthy(c.staffed_unit_id) THEN c.staffed_unit_id ELSE first_out

BlankRow(r) ==
  /\ r.assigned_entity_type \in {"NONE", "UNASSIGNED"}
  /\ r.assigned_person_id = NULL
  /\ r.assigned_placeholder_id = NullText
  /\ r.health_status = "UNFILLED"
  /\ r.note = NullText

Count(Q, P(_)) == Cardinality({i \in 1..Len(Q) : P(Q[i])})

\* One week, 14 shifts (one per day index and slot) and, per shift, 2 x |units|
\* blank seat rows: PRIMARY for first_out, SHADOW for every other unit.
GeneratedWeek(W, S, Q, start, first_out, units) ==
  /\ Cardinality(W) = 1
  /\ \A w \in W : w.week_id = week_id_for(start)
  /\ Cardinality(S) = 2 * NumDays
  /\ \A di \in 0..(NumDays - 1) : \A k \in 1..Len(SLOTS) :
       Cardinality({s \in S : /\ s.week_id = week_id_for(start)
                              /\ s.day_index = di /\ s.slot = SLOTS[k]}) = 1
  /\ Len(Q) = 2 * NumDays * 2 * Len(units)
  /\ \A i \in 1..Len(Q) : BlankRow(Q[i])
  /\ \A s \in S : \A k \in 1..Len(SEATS) :
       /\ Count(Q, LAMBDA r : r.shift_id = s.shift_id) = 2 * Len(units)
       /\ Count(Q, LAMBDA r : /\ r.shift_id = s.shift_id /\ r.unit_id = first_out
                              /\ r.seat_id = SEATS[k] /\ r.layer = "PRIMARY") = 1
       /\ \A u \in Range(units) \ {first_out} :
            Count(Q, LAMBDA r : /\ r.shift_id = s.shift_id /\ r.unit_id = u
                                /\ r.seat_id = SEATS[k] /\ r.layer = "SHADOW") = 1

C5_ApplyFirstOutFrame ==
  [][(IsApply(lastOp'.op) /\ nOps' = nOps + 1) =>
       LET wid == week_id_for(lastOp'.start)
           u == lastOp'.unit
           inWeek(sid) == \E s \in shifts : s.shift_id = sid /\ s.week_id = wid
       IN /\ seats' = seats
          /\ shifts' = shifts
          /\ {w.week_id : w \in weeks'} = {w.week_id : w \in weeks}
          /\ \A w \in weeks' :
               IF w.week_id = wid
               THEN /\ w.first_out_default_unit_id = u
                    /\ [w EXCEPT !.first_out_default_unit_id = NULL] \in
                         {[v EXCEPT !.first_out_default_unit_id = NULL] : v \in weeks}
               ELSE w \in weeks
          /\ {c.shift_id : c \in cfg'} = {c.shift_id : c \in cfg}
          /\ Cardinality(cfg') = Cardinality(cfg)
          /\ \A c \in cfg' :
               IF inWeek(c.shift_id)
               THEN /\ c.staffed_unit_id = u
                    /\ [c EXCEPT !.staffed_unit_id = NULL] \in
                         {[v EXCEPT !.staffed_unit_id = NULL] : v \in cfg}
               ELSE c \in cfg]_vars

\* A first-out unit was applied to a week that holds an override and whose
\* seats were generated for another unit, while a second week exists.
C5_Witness ==
  /\ IsApply(lastOp.op)
  /\ \E c \in cfg : /\ c.shift_id[1] = week_id_for(lastOp.start)
                    /\ c.staffed_unit_id = lastOp.unit
                    /\ Truthy(c.first_out_override_unit_id)
                    /\ ~HasSeat(seats, c.shift_id, lastOp.unit, "DRIVER", "PRIMARY")

\* --------------------------------------------- claims on reconciliation
IsPass(op) == op \in {"hard_dedupe", "dedupe_history", "prune_v1", "prune_v2", "prune_v3"}

KeySet(Q) == {SeatKey(Q[i]) : i \in 1..Len(Q)}

HasAssignee(r) == r.assigned_person_id # NULL \/ r.assigned_placeholder_id # NullText

\* seat_record_ids in ascending order, NULL first.
IdRank(id) == IF id = NullId THEN 0 ELSE id[2]

\* C6: after the hard dedupe every key that had one or more seat records has
\* exactly one, and that survivor is one of the records the key had before.
C6_OneSurvivorPerKey ==
  lastOp.op = "hard_dedupe" =>
    \A k \in KeySet(lastOp.before) :
      /\ Len(KeyRows(seats, k)) = 1
      /\ KeyRows(seats, k)[1] \in Range(KeyRows(lastOp.before, k))

\* C7: every reconciliation pass is idempotent: run again right after a run, with
\* the same read order, it deletes no row and updates no row.
C7_SecondRunChangesNothing ==
  /\ lastOp.op = "hard_dedupe" => hard_dedupe(seats, lastOp.order) = seats
  /\ lastOp.op = "dedupe_history" => dedupe_history_seats(seats) = seats
  /\ lastOp.op = "prune_v1" => prune_v1(seats) = seats
  /\ lastOp.op = "prune_v2" => prune_v2(seats) = seats
  /\ lastOp.op = "prune_v3" => prune_v3(seats) = seats

\* C8: no pass deletes a record that has a person id or a placeholder id set
\* while a record of the same key with neither id set survives.
C8_AssigneeNotLostToBlank ==
  IsPass(lastOp.op) =>
    \A i \in 1..Len(lastOp.before) :
      LET d == lastOp.before[i]
      IN (HasAssignee(d) /\ d.seat_record_id \notin SeatIds(seats)) =>
           ~\E j \in 1..Len(seats) : SeatKey(seats[j]) = SeatKey(d) /\ ~HasAssignee(seats[j])

\* C9: for every duplicate group the hard dedupe keeps a record of maximal score,
\* and among the records of maximal score the one with the lowest
\* seat_record_id, whatever order the group's rows were read in.
C9_KeepsLowestIdOfBest ==
  lastOp.op = "hard_dedupe" =>
    \A k \in Range(DupKeys(lastOp.before)) :
      LET rows == Range(KeyRows(lastOp.before, k))
          best == {r \in rows : \A q \in rows : score(q) <= score(r)}
          low == {r \in best : \A q \in best : IdRank(r.seat_record_id) <= IdRank(q.seat_record_id)}
      IN \E r \in low : r \in Range(KeyRows(seats, k))

\* C10: after the hard dedupe of a group in which some record's note contains the
\* history tag, the key still has a record whose note contains the tag, and the
\* record the pass left under a seat_record_id (the winner) is tagged.
C10_TaggedGroupKeepsTag ==
  lastOp.op = "hard_dedupe" =>
    \A k \in Range(DupKeys(lastOp.before)) :
      (\E r \in Range(KeyRows(lastOp.before, k)) : HasTag(r.note)) =>
        /\ \E r \in Range(KeyRows(seats, k)) : HasTag(r.note)
        /\ \A r \in Range(KeyRows(seats, k)) : r.seat_record_id # NullId => HasTag(r.note)

\* A run that deleted the untagged record of a group and kept the tagged one.
C10_Witness ==
  /\ lastOp.op = "hard_dedupe"
  /\ Len(seats) < Len(lastOp.before)
  /\ \E k \in Range(DupKeys(lastOp.before)) :
       /\ \E r \in Range(KeyRows(lastOp.before, k)) : HasTag(r.note)
       /\ \E r \in Range(KeyRows(lastOp.before, k)) :
            ~HasTag(r.note) /\ HasAssignee(r) /\ r.seat_record_id \notin SeatIds(seats)
       /\ Len(KeyRows(seats, k)) = 1
       /\ HasTag(KeyRows(seats, k)[1].note)

IsPrune(op) == op \in {"prune_v1", "prune_v2", "prune_v3"}

\* A blank default: entity type NONE or unset (NULL, '' or the legacy
\* UNASSIGNED), health UNFILLED, empty note, no person id, no placeholder id.
IsBlankDefault(r) ==
  /\ r.assigned_entity_type \in {"NONE", "UNASSIGNED", "", NULL}
  /\ r.health_status = "UNFILLED"
  /\ r.note \in {NullText, <<>>}
  /\ r.assigned_person_id = NULL
  /\ r.assigned_placeholder_id = NullText

\* The rows of Q, in order, that are not a blank default with a different row
\* of the same key carrying the tag.
PruneExpected(Q) ==
  LET doomed(i) == /\ IsBlankDefault(Q[i])
                   /\ \E j \in 1..Len(Q) : j # i /\ SeatKey(Q[j]) = SeatKey(Q[i])
                                           /\ HasTag(Q[j].note)
      F[i \in 0..Len(Q)] == IF i = 0 THEN <<>>
                            ELSE IF doomed(i) THEN F[i - 1] ELSE Append(F[i - 1], Q[i])
  IN F[Len(Q)]

\* C11: a blank-default prune deletes a record if and only if it is blank and a
\* different record of the same key has a note containing the history tag; a
\* record whose own note carries the tag is never deleted.
C11_PruneDeletesExactlyBlanks ==
  IsPrune(lastOp.op) => seats = PruneExpected(lastOp.before)

\* ======================================================== claims on the radar
IsRadar(op) == op \in {"radar_v1", "radar_v2"}

\* The reports of the last radar run, one per shift of the week.
Reports == IF IsRadar(lastOp.op) THEN Range(lastOp.out) ELSE {}

ExpectedStatus(e) ==
  IF Len(e.att_pool) = 0 \/ Len(e.drv_pool) = 0 THEN "RED"
  ELSE IF Len(e.att_als_pool) = 0 THEN "YELLOW"
  ELSE IF Len(e.att_pool) = 1 \/ Len(e.drv_pool) = 1 THEN "YELLOW"
  ELSE "GREEN"

\* C12: in either radar version, for every roster, shift and policy flag, the
\* status of a shift is RED if its attendant pool or its driver pool is empty,
\* otherwise YELLOW if its attendant pool has no ALS member, otherwise YELLOW if
\* one of the two pools has exactly one member, otherwise GREEN.
C12_StatusFromPools == \A e \in Reports : e.status = ExpectedStatus(e)

\* One run that reports a GREEN shift and a RED shift.
C12_Witness ==
  /\ \E e \in Reports : e.status = "GREEN"
  /\ \E e \in Reports : e.status = "RED"

\* The conditions a reason stands for, read off the reason's text.
Says(e, heads) == \E i \in 1..Len(e.reasons) : e.reasons[i][1] \in heads

SaysNoAttendant(e) == Says(e, {"No attendant candidates"})

SaysNoDriver(e) == Says(e, {"No driver candidates with ", "No driver candidates for unit ops"})

SaysNoAls(e) == Says(e, {"No ALS available for attendant"})

SaysFragile(e) ==
  Says(e, {"Fragile: only 1 candidate in a pool", "Fragile: only 1 candidate in a seat pool"})

\* C13: for every roster and shift the reason list names every condition that
\* holds: an empty attendant pool, an empty driver pool, an attendant pool
\* without an ALS member, and a pool with exactly one candidate, whichever of
\* them set the status.
C13_EveryReasonReported ==
  \A e \in Reports :
    /\ Len(e.att_pool) = 0 => SaysNoAttendant(e)
    /\ Len(e.drv_pool) = 0 => SaysNoDriver(e)
    /\ (Len(e.att_pool) > 0 /\ Len(e.att_als_pool) = 0) => SaysNoAls(e)
    /\ (Len(e.att_pool) = 1 \/ Len(e.drv_pool) = 1) => SaysFragile(e)

\* The people of the roster that satisfy a condition, as a pool of ids.
PoolOf(Test(_)) == Ids(SelectSeq(roster.people, Test))

Medical(p) == norm_cert(p.medical_cert) \in {"EMT", "AEMT", "ALS", "PARAMEDIC", "MEDIC"}

AlsCapable(p) == norm_cert(p.medical_cert) \in {"ALS", "PARAMEDIC", "MEDIC"}

\* C14: in both radar versions a person is in the attendant pool exactly when
\* active, willing to attend and certified EMT, AEMT, ALS, PARAMEDIC or MEDIC,
\* and a pool member counts as ALS exactly when certified ALS, PARAMEDIC or MEDIC.
C14_AttendantPool ==
  \A e \in Reports :
    /\ e.att_pool = PoolOf(LAMBDA p : p.active = 1 /\ p.willing_attend = 1 /\ Medical(p))
    /\ e.att_als_pool = PoolOf(LAMBDA p : /\ p.active = 1 /\ p.willing_attend = 1
                                          /\ Medical(p) /\ AlsCapable(p))

\* The effective unit of a shift as the configuration table gives it: the
\* override when one is set, the staffed unit otherwise, NULL without either.
EffectiveUnit(sid) ==
  LET c == JoinConfig(Store, [shift_id |-> sid])
  IN IF Truthy(c.first_out_override_unit_id) THEN c.first_out_override_unit_id
     ELSE IF Truthy(c.staffed_unit_id) THEN c.staffed_unit_id
     ELSE NULL

CanOperate(p, unit) ==
  \E o \in roster.ops : o.person_id = p.person_id /\ o.unit_id = unit /\ o.can_operate = 1

\* C15: a person is in a shift's driver pool exactly when active, able to
\* operate the shift's effective unit, and either certified EMT or higher or
\* admitted by the non-medical-driver flag.
C15_DriverPool ==
  \A e \in Reports :
    e.drv_pool = PoolOf(LAMBDA p : /\ p.active = 1
                                   /\ CanOperate(p, EffectiveUnit(e.shift_id))
                                   /\ (Medical(p) \/ lastOp.allow))

\* C16: the unit a radar resolves for a shift is the override when one is set
\* and the staffed unit otherwise, and it is the unit get_staffed_unit of the
\* history importer resolves for the same shift, whether the shift's
\* configuration has an override, only a staffed unit, or no row at all.
C16_SameUnitEverywhere ==
  \A e \in Reports :
    LET c == JoinConfig(Store, [shift_id |-> e.shift_id])
    IN /\ e.unit = IF Truthy(c.first_out_override_unit_id)
                   THEN c.first_out_override_unit_id ELSE c.staffed_unit_id
       /\ e.unit = get_staffed_unit(Store, e.shift_id)

\* ================================================ claims on rotation runs
IsRotationRun(op) == op \in {"ensure_main", "tow_main"}

DefaultOf(start) ==
  LET w == CHOOSE w \in weeks : w.week_id = week_id_for(start)
  IN w.first_out_default_unit_id

StaffedUnitsOf(start) ==
  {c.staffed_unit_id :
     c \in {c \in cfg : \E s \in shifts : s.week_id = week_id_for(start)
                                          /\ s.shift_id = c.shift_id}}

\* C17: after a committed rotation run over N weeks with unit list U of length
\* k, week i of the run (counted from 0) has U[i mod k] as its week default and
\* as the staffed unit of every shift configuration of the week, and a week the
\* run created has such a configuration; with U = [AMB120, AMB121, AMB131] and
\* N = 4 that is AMB120, AMB121, AMB131, AMB120.
C17_RotationSequence ==
  (IsRotationRun(lastOp.op) /\ lastOp.ok) =>
    \A i \in 0..(lastOp.n - 1) :
      LET start == lastOp.start1 + WeekStep * i
          u == lastOp.rotation[(i % Len(lastOp.rotation)) + 1]
      IN /\ HasWeek(weeks, week_id_for(start))
         /\ DefaultOf(start) = u
         /\ StaffedUnitsOf(start) \subseteq {u}
         /\ ~HasWeek(lastOp.before.weeks, week_id_for(start)) => StaffedUnitsOf(start) = {u}

\* The run of the scenario: four weeks from day 0 with the three units, and the
\* fourth week back on the first unit.
C17_Witness ==
  /\ IsRotationRun(lastOp.op) /\ lastOp.ok
  /\ lastOp.start1 = 0 /\ lastOp.n = 4
  /\ lastOp.rotation = <<"AMB120", "AMB121", "AMB131">>
  /\ [i \in 1..4 |-> DefaultOf(WeekStep * (i - 1))] = <<"AMB120", "AMB121", "AMB131", "AMB120">>
  /\ StaffedUnitsOf(WeekStep * 3) = {"AMB120"}

\* ================================================== claims on week rows
IsCreate(op) == op \in {"ensure_week", "ensure_week_tow", "create_week", "import_v3"}

OneWeekPerStart(W) == \A w1 \in W : \A w2 \in W : w1.start_date = w2.start_date => w1 = w2

\* C18: whatever create_week, ensure_week and the history import have run, a
\* week table holds at most one row for a start date, and a run that creates
\* weeks leaves every week row that was there before it as it was: dates, lock
\* timestamp, default unit and status.
C18_OneWeekPerStart ==
  [][/\ OneWeekPerStart(weeks') /\ OneWeekPerStart(legacy'.weeks)
     /\ IsCreate(lastOp'.op) => (weeks \subseteq weeks' /\ legacy.weeks \subseteq legacy'.weeks)]_vars

\* A second attempt at a week that exists, asking for another unit than the one
\* the week row has.
C18_Witness ==
  \/ /\ lastOp.op \in {"ensure_week", "ensure_week_tow"}
     /\ \E w \in weeks : /\ w.week_id = week_id_for(lastOp.start)
                         /\ w.first_out_default_unit_id # lastOp.unit
  \/ /\ lastOp.op = "create_week" /\ ~lastOp.ok
     /\ \E w \in legacy.weeks : /\ w.start_date = lastOp.start
                                /\ w.first_out_default_unit_id # lastOp.unit

AllSlots == {<<di, slot>> : di \in 0..(NumDays - 1), slot \in Range(SLOTS)}

FullWeek(S, wid) ==
  LET own == {s \in S : s.week_id = wid}
  IN /\ Cardinality(own) = Cardinality(AllSlots)
     /\ {<<s.day_index, s.slot>> : s \in own} = AllSlots

\* C19: in every committed state, whatever creation, ensure, rotation and
\* import runs led to it and whether or not a run aborted on the way, every
\* week row has exactly 14 shift rows, a DAY and a NIGHT for each day 0..6.
C19_EveryWeekHasAllShifts ==
  /\ \A w \in weeks : FullWeek(shifts, w.week_id)
  /\ \A w \in legacy.weeks : FullWeek(legacy.shifts, w.week_id)

\* C20: applying a first-out unit to a week that is not in the store reports an
\* error to the caller and writes nothing.
C20_ApplyToMissingWeekFails ==
  [][(IsApply(lastOp'.op) /\ ~HasWeek(weeks, week_id_for(lastOp'.start)))
       => (~lastOp'.ok /\ UNCHANGED <<weeks, shifts, cfg, seats>>)]_vars

\* ================================================ claims on history imports
IsImport(op) == op \in {"import_v1", "import_v2", "import_month", "import_v3"}

\* C21: a history import that stops at a CSV row with an unparseable date or an
\* unrecognised slot commits no change to the store, whatever valid rows
\* precede that row in the file.
C21_FailedImportCommitsNothing ==
  [][(IsImport(lastOp'.op) /\ ~lastOp'.ok)
       => UNCHANGED <<weeks, shifts, cfg, seats, roster>>]_vars

\* ============================================== claims on interleaved runs
RunsFinished == \A p \in Runners : lastOp.pc[p] \in {"done", "failed"}

\* Every run made its existence check before any run committed.
ChecksBeforeCommits == \A p \in Runners : lastOp.early[p]

NoDuplicateKeys(Q) ==
  \A i, j \in 1..Len(Q) : i < j => SeatKey(Q[i]) # SeatKey(Q[j])

OneFullWeek(W, S, Q) ==
  /\ Cardinality(W) = 1
  /\ Cardinality(S) = 2 * NumDays
  /\ NoDuplicateKeys(Q)

\* The runs write the same tables: all sc_* (ensure, tow) or all legacy (create).
SameTables ==
  \A p, q \in Runners : (lastOp.script[p] = "create") = (lastOp.script[q] = "create")

\* C22: when week-generation runs for the same start date and the same tables
\* interleave, each making its existence check before any other's inserts
\* are committed, the committed tables end with exactly one week row, 14
\* shifts and no two seat records with the same (shift, unit, seat, layer)
\* key, and the step on which a run fails changes nothing in the committed
\* store.
C22_InterleavedGeneration ==
  [][/\ (RunsFinished' /\ ChecksBeforeCommits' /\ SameTables')
          => IF \E p \in Runners : lastOp'.script[p] = "create"
             THEN OneFullWeek(legacy'.weeks, legacy'.shifts, legacy'.seats)
             ELSE OneFullWeek(weeks', shifts', seats')
     /\ \A p \in Runners :
          (lastOp.pc[p] # "failed" /\ lastOp'.pc[p] = "failed")
            => UNCHANGED <<weeks, shifts, cfg, seats, legacy>>]_vars

\* Two runs on the same tables checked before either committed; one
\* committed the week and the other failed at its own insert.
C22_Witness ==
  /\ RunsFinished
  /\ ChecksBeforeCommits
  /\ \E p, q \in Runners :
       /\ lastOp.pc[p] = "done"
       /\ lastOp.pc[q] = "failed"
       /\ ~lastOp.saw[q]
       /\ lastOp.unit[p] # lastOp.unit[q]
  /\ SameTables
  /\ weeks # {} \/ legacy.weeks # {}

PersonSet(r) == r.assigned_person_id # NULL

PlaceholderSet(r) == r.assigned_placeholder_id # NullText /\ r.assigned_placeholder_id # <<>>

\* C23: in every state reached by generation, history import, placeholder
\* normalisation and reconciliation, each seat record has a person id exactly
\* when its entity type is PERSON and a non-empty placeholder id exactly when
\* its entity type is PLACEHOLDER.
C23_AssignmentMatchesType ==
  \A i \in 1..Len(seats) :
    /\ PersonSet(seats[i]) <=> seats[i].assigned_entity_type = "PERSON"
    /\ PlaceholderSet(seats[i]) <=> seats[i].assigned_entity_type = "PLACEHOLDER"

\* ======================================================= claims on shifts
ShiftKept(S1, S2) ==
  \A s \in S1 : \E t \in S2 : /\ t.shift_id = s.shift_id
                              /\ t.shift_start = s.shift_start
                              /\ t.shift_end = s.shift_end

\* C24: no operation (ensure, rotation, history import, manual override,
\* create_week) deletes a shift row or changes the shift_start or shift_end of
\* an existing shift; a shift row stays as it was created, only the shift's
\* config row changes.
C24_ShiftRowsFrozen ==
  [][/\ ShiftKept(shifts, shifts') /\ ShiftKept(legacy.shifts, legacy'.shifts)
     /\ shifts \subseteq shifts' /\ legacy.shifts \subseteq legacy'.shifts]_vars

\* ========================================================== claims on ids
\* C25: the week id is derived from (start date, end date), each shift id from
\* (week id, day index, slot) and each seat record id from (shift id, unit,
\* role, layer), so that generating from the same inputs gives the same ids
\* and distinct keys give distinct ids: every stored id is the derived one.
C25_IdsDerivedFromKeys ==
  /\ \A w \in weeks \cup legacy.weeks :
       w.week_id = <<"WEEK", w.start_date, w.end_date>>
  /\ \A s \in shifts \cup legacy.shifts :
       s.shift_id = shift_id_for(s.week_id, s.day_index, s.slot)
  /\ \A Q \in {seats, legacy.seats} : \A i \in 1..Len(Q) :
       Q[i].seat_record_id =
         gen_seat_record_id(Q[i].shift_id, Q[i].unit_id, Q[i].seat_id, Q[i].layer)

\* ================================================== claims on lock times
\* C26: every week row, whichever script created it, has its lock timestamp
\* at 00:00:00 of the date 28 days before its start date.
C26_LockIs28DaysBefore ==
  \A w \in weeks \cup legacy.weeks : w.lock_dt = <<w.start_date - LockLeadDays, 0>>

\* ================================================ claims on shift configs
ConfigsOf(C, sid) == {c \in C : c.shift_id = sid}

DefaultConfig(c) ==
  c.first_out_override_unit_id = NULL /\ c.is_salary_only = 0 /\ c.active = 1

\* C28: every shift, the history importers' included, has exactly one
\* shift-config row, and a config row is created with the week's first-out
\* unit as staffed unit, no override, not salary-only and active.
C28_EveryShiftHasConfig ==
  [][/\ \A s \in shifts' : Cardinality(ConfigsOf(cfg', s.shift_id)) = 1
     /\ \A s \in legacy'.shifts : Cardinality(ConfigsOf(legacy'.cfg, s.shift_id)) = 1
     /\ \A c \in cfg' :
          ConfigsOf(cfg, c.shift_id) = {}
            => /\ DefaultConfig(c)
               /\ \E s \in shifts', w \in weeks' :
                    /\ s.shift_id = c.shift_id
                    /\ w.week_id = s.week_id
                    /\ c.staffed_unit_id = w.first_out_default_unit_id]_vars

\* ===================================================== claims on normalisers
\* The single id of a name: PH_, then the words in upper case joined by one
\* underscore ("Fire Division" and "FIRE_DIVISION": PH_FIRE_DIVISION).
SingleId(words) == PH \o upper(words[1]) \o <<"_">> \o upper(words[2])

\* C27: every placeholder-id normaliser (canon, normalize_placeholder, the v2
\* and v3 importers' inline rules, safe_ph_from_name) maps every written
\* variant of a name, whatever its letter case, its separator (blanks,
\* underscores, punctuation) and its PH_ prefix, to the same single id.
C27_VariantsCollapse ==
  lastOp.op \in Normalisers => lastOp.id = SingleId(lastOp.words)

\* ======================================== claims on import and reconciliation
\* The row a history import writes for a seat: a tagged FILLED placeholder.
IsImported(r) ==
  /\ r.assigned_entity_type = "PLACEHOLDER"
  /\ r.assigned_placeholder_id \notin {NullText, <<>>}
  /\ r.health_status = "FILLED"
  /\ HasTag(r.note)

\* The blank row the generators write.
IsGeneratedBlank(r) ==
  /\ r.assigned_entity_type \in {"NONE", "UNASSIGNED"}
  /\ r.assigned_person_id = NULL
  /\ r.assigned_placeholder_id = NullText
  /\ r.health_status = "UNFILLED"
  /\ r.note = NullText

\* Key k holds one imported row and, under other seat_record_ids, generated
\* blank rows.
ImportedOverBlank(Q, k) ==
  LET rows == KeyRows(Q, k)
  IN /\ Len(rows) >= 2
     /\ \E i \in 1..Len(rows) :
          /\ IsImported(rows[i])
          /\ \A j \in 1..Len(rows) \ {i} :
               /\ IsGeneratedBlank(rows[j])
               /\ rows[j].seat_record_id # rows[i].seat_record_id

ImportedRow(Q, k) ==
  LET rows == KeyRows(Q, k) IN rows[CHOOSE i \in 1..Len(rows) : IsImported(rows[i])]

\* C29: when a key holds a generated blank row and, under a different
\* seat_record_id, the tagged FILLED row of a history import, the hard dedupe
\* leaves the key exactly one row, and that row carries the imported entity
\* type, placeholder id, FILLED status and the history tag.
C29_ImportSurvivesHardDedupe ==
  \A k \in Range(KeysOf(lastOp.before)) :
    (lastOp.op = "hard_dedupe" /\ ImportedOverBlank(lastOp.before, k))
      => LET rows == KeyRows(seats, k)
             imp == ImportedRow(lastOp.before, k)
         IN /\ Len(rows) = 1
            /\ rows[1].assigned_entity_type = imp.assigned_entity_type
            /\ rows[1].assigned_placeholder_id = imp.assigned_placeholder_id
            /\ rows[1].health_status = "FILLED"
            /\ HasTag(rows[1].note)

\* The rows of key k whose note equals the history tag.
HistoryRows(Q, k) == SelectSeq(KeyRows(Q, k), LAMBDA r : r.note = <<TAG>>)

CarriesHistory(r, h) ==
  /\ r.assigned_entity_type = h.assigned_entity_type
  /\ r.assigned_person_id = h.assigned_person_id
  /\ r.assigned_placeholder_id = h.assigned_placeholder_id
  /\ r.health_status = h.health_status
  /\ r.note = <<TAG>>

\* C30: after dedupe_history_seats, every key that had a row whose note equals
\* the history tag has exactly one row, and that row carries the entity type,
\* person id, placeholder id and health status of a history row of the key,
\* and the tag.
C30_OneHistoryRowPerKey ==
  \A k \in Range(KeysOf(lastOp.before)) :
    (lastOp.op = "dedupe_history" /\ HistoryRows(lastOp.before, k) # <<>>)
      => LET rows == KeyRows(seats, k)
             hist == HistoryRows(lastOp.before, k)
         IN /\ Len(rows) = 1
            /\ \E i \in 1..Len(hist) : CarriesHistory(rows[1], hist[i])

\* =================================================================== claims on the roster loader
CertLevels == {"NONE", "EMT", "AEMT", "ALS", "PARAMEDIC", "MEDIC"}

\* The people row a committed load left for its i-th CSV row, when no later
\* row of the file wrote the same person.
StoredFor(i) == SelectSeq(roster.people, LAMBDA p : p.person_id = lastOp.ids[i])

LastWriteOf(i) == \A j \in (i + 1)..Len(lastOp.ids) : lastOp.ids[j] # lastOp.ids[i]

\* C31: after a committed load, each CSV person whose certification is one of
\* NONE, EMT, AEMT, ALS, PARAMEDIC, MEDIC is stored with that certification
\* unchanged, so is_emt_or_higher and is_als answer on the stored value as
\* they do on the CSV value.
C31_CertStoredUnchanged ==
  (lastOp.op = "load_roster" /\ lastOp.ok /\ ~lastOp.dry_run) =>
    \A i \in 1..Len(lastOp.rows) :
      (LastWriteOf(i) /\ lastOp.rows[i].medical_cert \in CertLevels) =>
        /\ Len(StoredFor(i)) = 1
        /\ StoredFor(i)[1].medical_cert = lastOp.rows[i].medical_cert
        /\ is_emt_or_higher(StoredFor(i)[1].medical_cert)
             = is_emt_or_higher(lastOp.rows[i].medical_cert)
        /\ is_als(StoredFor(i)[1].medical_cert) = is_als(lastOp.rows[i].medical_cert)

\* =================================================================== claims on the first-out unit
WeekOfShift(sid) == {w \in weeks : \E s \in shifts : s.shift_id = sid /\ s.week_id = w.week_id}

\* C32: after complete runs of the generators, the rotation script and the
\* history importer, every shift-config row carries as staffed_unit_id the
\* first_out_default_unit_id of the week its shift belongs to.
C32_StaffedIsWeekFirstOut ==
  \A c \in cfg : \A w \in WeekOfShift(c.shift_id) :
    c.staffed_unit_id = w.first_out_default_unit_id

\* A run has moved an existing week, whose shifts have config rows, to another
\* first-out unit.
C32_Witness ==
  /\ lastOp.op \in {"ensure_main", "tow_main"} /\ lastOp.ok
  /\ \E w \in weeks : \E wb \in lastOp.before.weeks :
       /\ wb.week_id = w.week_id
       /\ wb.first_out_default_unit_id # w.first_out_default_unit_id
       /\ \E c \in lastOp.before.cfg : w \in WeekOfShift(c.shift_id)

\* =================================================================== claims on references
\* C33: every seat record's shift_id names an existing shift and every
\* shift's week_id names an existing week.
C33_ReferencesResolve ==
  /\ \A i \in 1..Len(seats) : HasShift(shifts, seats[i].shift_id)
  /\ \A s \in shifts : HasWeek(weeks, s.week_id)

\* =================================================================== claims on dates
OneShiftPerDateSlot(S) ==
  \A s1 \in S : \A s2 \in S :
    (s1.shift_start[1] = s2.shift_start[1] /\ s1.slot = s2.slot) => s1 = s2

\* C34, as stated: whatever the start dates of the generated weeks, at most one
\* shift exists for a (calendar date of shift start, slot).
C34_OneShiftPerDateSlot == OneShiftPerDateSlot(shifts)

ThursdayWeeks == \A w \in weeks : weekday(w.start_date) = 3

\* C34, amended: when every generated week starts on a Thursday, at most one
\* shift exists for a (calendar date of shift start, slot), so the importers'
\* lookup by date and slot matches at most one row.
C34_OneShiftPerDateSlotThursday == ThursdayWeeks => OneShiftPerDateSlot(shifts)

\* An import has met the shift a generated Thursday week holds for its date,
\* on a day other than the Thursday.
C34_Witness ==
  /\ ThursdayWeeks
  /\ lastOp.op \in {"import_v3", "import_v2"} /\ lastOp.ok
  /\ weekday(lastOp.d) # 3
  /\ \E s \in lastOp.before.shifts : s.shift_start[1] = lastOp.d /\ s.slot = lastOp.slot
  /\ \E i \in 1..Len(seats) : HasTag(seats[i].note)

\* The shift ensure_week generates for date d in the week that starts on thu.
GeneratedShiftOn(thu, d, slot) ==
  {s \in ensure_week(EmptyStore, thu, DEFAULT_UNIT).shifts :
     s.shift_start[1] = d /\ s.slot = slot}

\* C35: for the date and slot of a month import, shift_id_for(d, slot) is the
\* id of the shift ensure_week generates for that date in the week starting on
\* the Thursday on or before d: week_start_thu(d) is a Thursday not after d,
\* the day index lies in 0..6, and the week id is built from that Thursday and
\* the Wednesday six days later.
C35_ImporterIdIsGeneratorId ==
  lastOp.op = "import_v3" =>
    LET d == lastOp.d
        thu == week_start_thu(d)
    IN /\ weekday(thu) = 3
       /\ d - thu \in 0..(NumDays - 1)
       /\ imp_week_id_for(d) = week_id_for(thu)
       /\ imp_week_id_for(d) = <<"WEEK", thu, thu + 6>>
       /\ imp_shift_id_for(d, lastOp.slot) = shift_id_for(week_id_for(thu), d - thu, lastOp.slot)
       /\ GeneratedShiftOn(thu, d, lastOp.slot) # {}
       /\ \A s \in GeneratedShiftOn(thu, d, lastOp.slot) :
            s.shift_id = imp_shift_id_for(d, lastOp.slot)
       /\ \E s \in shifts : s.shift_id = imp_shift_id_for(d, lastOp.slot)

\* The importer has found, for a Wednesday, the shift the generator made.
C35_Witness ==
  /\ lastOp.op = "import_v3" /\ lastOp.ok
  /\ weekday(lastOp.d) = 2
  /\ \E s \in lastOp.before.shifts : s.shift_id = imp_shift_id_for(lastOp.d, lastOp.slot)
  /\ shifts = lastOp.before.shifts

\* =================================================================== claims on the non-medical-driver flag
StatusRank(st) == CASE st = "GREEN" -> 0 [] st = "YELLOW" -> 1 [] st = "RED" -> 2

\* The reports of the same radar on the same week and roster without the flag.
ReportsWithoutFlag ==
  IF lastOp.op = "radar_v1" THEN radar_v1(Store, roster, lastOp.week, FALSE).out
  ELSE radar_v2(Store, roster, lastOp.week, FALSE).out

\* C36: a radar run with the non-medical-driver flag reports, shift by shift,
\* the attendant pool of the run without the flag, a driver pool that contains
\* the one without the flag, and a status that is not worse.
C36_FlagOnlyWidensDrivers ==
  (IsRadar(lastOp.op) /\ lastOp.ok /\ lastOp.allow) =>
    /\ Len(lastOp.out) = Len(ReportsWithoutFlag)
    /\ \A i \in 1..Len(lastOp.out) :
         LET with == lastOp.out[i]
             without == ReportsWithoutFlag[i]
         IN /\ with.shift_id = without.shift_id
            /\ with.att_pool = without.att_pool
            /\ with.att_als_pool = without.att_als_pool
            /\ Range(without.drv_pool) \subseteq Range(with.drv_pool)
            /\ StatusRank(with.status) <= StatusRank(without.status)

\* A run with the flag counts a driver the run without it leaves out, and
\* reports a better status for that shift.
C36_Witness ==
  /\ IsRadar(lastOp.op) /\ lastOp.ok /\ lastOp.allow
  /\ \E i \in 1..Len(lastOp.out) :
       /\ Range(lastOp.out[i].drv_pool) # Range(ReportsWithoutFlag[i].drv_pool)
       /\ StatusRank(lastOp.out[i].status) < StatusRank(ReportsWithoutFlag[i].status)

\* =================================================================== claims on shift times
EndKey(s) == s.shift_end[1] * 24 + s.shift_end[2]

ShiftHours == 12

\* The shifts of week wid, ordered by start, tile the seven days from 06:00 of
\* the start date: 14 shifts of 12 hours, each ending where the next starts.
Contiguous(S, wid, start) ==
  LET ss == OrderByStart({s \in S : s.week_id = wid})
  IN /\ Len(ss) = Len(ShiftOrder)
     /\ StartKey(ss[1]) = start * 24 + 6
     /\ \A i \in 1..Len(ss) : EndKey(ss[i]) - StartKey(ss[i]) = ShiftHours
     /\ \A i \in 1..(Len(ss) - 1) : EndKey(ss[i]) = StartKey(ss[i + 1])
     /\ EndKey(ss[Len(ss)]) = (start + NumDays) * 24 + 6

\* The week the last run generated: ensure_main fills its week in any case,
\* the rotation script and create_week write a week only when it is new.
GeneratedBy(op) ==
  /\ op.ok
  /\ \/ op.op = "ensure_main"
     \/ op.op = "tow_main" /\ ~HasWeek(op.before.weeks, week_id_for(op.d))
     \/ op.op = "create_week"

FullWeeks(W, S) == {w \in W : Contiguous(S, w.week_id, w.start_date)}

Adjacent(W, S) ==
  \A w1 \in FullWeeks(W, S) : \A w2 \in FullWeeks(W, S) :
    w2.start_date = w1.start_date + NumDays =>
      LET a == OrderByStart({s \in S : s.week_id = w1.week_id})
          b == OrderByStart({s \in S : s.week_id = w2.week_id})
      IN EndKey(a[Len(a)]) = StartKey(b[1])

\* C37: the 14 shifts of a generated week, ordered by start, each last 12
\* hours, each ends where the next starts, the first starts at 06:00 on the
\* start date and the last ends at 06:00 seven days later; weeks whose start
\* dates are 7 days apart meet without gap or overlap.
C37_ShiftsTileTheWeek ==
  /\ GeneratedBy(lastOp) =>
       IF lastOp.op = "create_week"
       THEN Contiguous(legacy.shifts, week_id_for(lastOp.d), lastOp.d)
       ELSE Contiguous(shifts, week_id_for(lastOp.d), lastOp.d)
  /\ Adjacent(weeks, shifts)
  /\ Adjacent(legacy.weeks, legacy.shifts)

\* Two generated weeks 7 days apart, the second made by the last run.
C37_Witness ==
  /\ GeneratedBy(lastOp)
  /\ \/ \E w1 \in FullWeeks(weeks, shifts) : \E w2 \in FullWeeks(weeks, shifts) :
          w2.start_date = w1.start_date + NumDays /\ w2.start_date = lastOp.d
     \/ \E w1 \in FullWeeks(legacy.weeks, legacy.shifts) :
          \E w2 \in FullWeeks(legacy.weeks, legacy.shifts) :
            w2.start_date = w1.start_date + NumDays /\ w2.start_date = lastOp.d

\* =================================================================== claims on normalisation
PlaceholderIds(Q) ==
  {Q[i].assigned_placeholder_id : i \in {j \in 1..Len(Q) : Q[j].assigned_placeholder_id # NullText}}

\* C38: canon(canon(s)) = canon(s) for every placeholder id s the run read,
\* and a run that follows another run changes no row.
C38_CanonIdempotent ==
  lastOp.op = "normalize_placeholders" =>
    /\ \A s \in PlaceholderIds(lastOp.before) : canon(canon(s)) = canon(s)
    /\ nOps > 1 => seats = lastOp.before

\* A second run, after a first one that rewrote ph_a_B to PH_PH_A_B.
C38_Witness ==
  /\ lastOp.op = "normalize_placeholders" /\ nOps = 2
  /\ seats[1].assigned_placeholder_id = <<"P", "H", "_", "P", "H", "_", "A", "_", "B">>

====
